---------------------------- MODULE Spec2Model ----------------------------
(***************************************************************************)
(* A model of the capture/calibration loop (src/src/modules/capture.py)    *)
(* and of the template matcher (src/src/template_matcher.py).              *)
(*                                                                         *)
(* Pixel coordinates are integers.  A frame is abstracted to what the      *)
(* searches see in it: its size, the position single_match reports for     *)
(* each corner anchor (NotFound when the anchor is not found), and the         *)
(* top-left pixel of the player marker (NotFound when it is not on screen).    *)
(* Confidences and thresholds are in hundredths (0.7 is 70).               *)
(***************************************************************************)
EXTENDS Integers, Sequences, FiniteSets, TLC

VARIABLES
    pc,               \* position of the Capture thread inside _main
    window,           \* Capture.window (width and height)
    frame,            \* Capture.frame
    tl,               \* _main local: top-left anchor found in the calibration frame
    br,               \* _main local: bottom-right anchor found in the calibration frame
    mm_tl,            \* _main local: top-left corner of the minimap rectangle
    mm_br,            \* _main local: bottom-right corner of the minimap rectangle
    minimap_ratio,    \* Capture.minimap_ratio, as a reduced fraction <<num, den>>
    minimap_sample,   \* Capture.minimap_sample
    calibrated,       \* Capture.calibrated
    ready,            \* Capture.ready
    crop,             \* _main local `minimap`: the crop of the current frame
    player,           \* _main local: the list returned by multi_match
    player_pos,       \* config.player_pos
    minimap,          \* Capture.minimap, the snapshot polled by the GUI
    failures,         \* consecutive failed frame grabs so far (saturating)
    template_cache,   \* TemplateMatcher.template_cache
    confidence_threshold, \* TemplateMatcher.confidence_threshold
    screen_image,     \* the screen image given to match_templates
    template_types,   \* the type filter given to match_templates
    last_call,        \* None, or the global threshold at the last match_templates call
    candidates,       \* match_templates: the list before suppression
    matches,          \* the list last returned by match_templates
    threshold_arg,    \* history: None, or the last set_confidence_threshold argument
    enabled,          \* config.enabled
    frame_no,         \* history: number of the frame last grabbed (saturating)
    stamps,           \* history: the frame numbers behind the published values
    done,             \* history: calibration steps completed since the last break
    first_cal,        \* history: None, or the outcome of the first calibration
    scene,            \* None, or the one scene every query and grab shows
    budget,           \* external writes to calibrated so far
    store,            \* the templates directory: per name, the .png and the .json
    op,               \* history: the last operation on the template library
    held,             \* the keys the keyboard controller holds down
    kpc,              \* position of the caller inside vkeys.press
    kkey,             \* press: the key argument
    kleft,            \* press: iterations of the loop still to run
    kpaused,          \* history: press released a key while config.enabled was false
    klast,            \* history: the last call into vkeys and its key
    main_pc,          \* position of main() in its start-up sequence
    started,          \* the modules main() has started, in order
    mod_ready,        \* the ready flags of bot, notifier and listener
    bot_running,      \* AutoMapleGUI.bot_running
    status_var,       \* AutoMapleGUI.status_var
    start_button,     \* state of the START button
    stop_button,      \* state of the STOP button
    pause_button,     \* state of the PAUSE button
    bot_threads,      \* position of every bot_main_loop thread started so far
    debug_last,       \* the line last written by log_debug
    mgr_cache,        \* PyQtTemplateManager.template_matcher.template_cache
    dlg_open,         \* a TemplateCreatorDialog is open
    dlg_cache,        \* the open dialog's template_matcher.template_cache
    tested,           \* history: the cache test_template_matching last matched
    last_handler,     \* history: the handler of AutoMapleGUI that ran last
    bot_pc,           \* position of the Bot thread inside its loop
    routine_len,      \* len(config.routine)
    routine_index,    \* config.routine.index
    observed,         \* history: what the loop's last check observed
    bot_act,          \* history: the Bot thread's last act
    screenshot,       \* TemplateCreatorDialog.screenshot (its shape)
    original_image,   \* ImageViewer.original_image (its shape, or not loaded)
    displayed_pixmap, \* ImageViewer.displayed_pixmap (its size)
    widget_size,      \* ImageViewer.size()
    point1,           \* ImageViewer.point1, widget coordinates
    point2,           \* ImageViewer.point2, widget coordinates
    dragging,         \* ImageViewer.dragging
    selected_roi,     \* TemplateCreatorDialog.selected_roi
    name_input,       \* text of the dialog's name_input
    create_button,    \* the Create button is enabled
    test_button,      \* the Test button is enabled
    dialog_result,    \* "open", "accepted" or "rejected"
    saved_templates,  \* history: arguments of every save_template that returned True
    roi_emitted,      \* history: what the last mouse event emitted on roi_selected
    mouse_last        \* history: the last mouse event and the state it found

captureVars == <<pc, window, frame, tl, br, mm_tl, mm_br, minimap_ratio,
                 minimap_sample, calibrated, ready, crop, player, player_pos,
                 minimap, failures>>
matcherVars == <<template_cache, confidence_threshold, screen_image,
                 template_types, last_call, candidates, matches, threshold_arg>>
historyVars == <<frame_no, stamps, done, first_cal>>
envVars == <<enabled, scene, budget>>
storeVars == <<store, op>>
keyVars == <<held, kpc, kkey, kleft, kpaused, klast>>
mainVars == <<main_pc, started, mod_ready>>
guiVars == <<bot_running, status_var, start_button, stop_button, pause_button,
             bot_threads, debug_last>>
instVars == <<mgr_cache, dlg_open, dlg_cache, tested, last_handler>>
botVars == <<bot_pc, routine_len, routine_index, observed, bot_act>>
creatorVars == <<screenshot, original_image, displayed_pixmap, widget_size,
                 point1, point2, dragging, selected_roi, name_input,
                 create_button, test_button, dialog_result, saved_templates,
                 roi_emitted, mouse_last>>
uiVars == <<guiVars, instVars, botVars, creatorVars>>
vars == <<pc, window, frame, tl, br, mm_tl, mm_br, minimap_ratio,
          minimap_sample, calibrated, ready, crop, player, player_pos,
          minimap, failures, template_cache, confidence_threshold,
          screen_image, template_types, last_call, candidates, matches,
          threshold_arg, enabled, frame_no, stamps, done, first_cal, scene, budget, store,
          op, held, kpc, kkey, kleft, kpaused, klast, main_pc, started,
          mod_ready, bot_running, status_var, start_button, stop_button,
          pause_button, bot_threads, debug_last, mgr_cache, dlg_open,
          dlg_cache, tested, last_handler, bot_pc, routine_len,
          routine_index, observed, bot_act, screenshot, original_image,
          displayed_pixmap, widget_size, point1, point2, dragging,
          selected_roi, name_input, create_button, test_button,
          dialog_result, saved_templates, roi_emitted, mouse_last>>

\* Python's None where a frame, a window or a dict is expected; "not found"
\* (None, or an empty list) where a point or a list of points is expected.
None == [none |-> TRUE]
NotFound == <<>>

Max(a, b) == IF a >= b THEN a ELSE b
Min(a, b) == IF a <= b THEN a ELSE b

(***************************************************************************)
(* Bounds of the model.                                                    *)
(***************************************************************************)
GridStep == 18     \* anchors and markers sit on a grid of this pitch
MaxGrid == 2       \* grid indices 0..MaxGrid in each direction
MaxFails == 3      \* the failure counter saturates here
MaxHits == 2       \* places of a screen that correlate above the background
MaxFrames == 3     \* the frame counter saturates here
MaxInvalidations == 1  \* external invalidations of the calibration in one run
TemplateSide == 16 \* width and height of the cached template images

(***************************************************************************)
(* Program constants of capture.py.                                        *)
(***************************************************************************)
MINIMAP_TOP_BORDER == 5
MINIMAP_BOTTOM_BORDER == 9
MMT_WIDTH == 20
MMT_HEIGHT == 20
PT_WIDTH == 16
PT_HEIGHT == 16
DEFAULT_WIDTH == 1440
DEFAULT_HEIGHT == 900

\* Lines 186-189: the rectangle's top-left corner.
MinimapTopLeft(a) ==
    <<a[1] + MINIMAP_BOTTOM_BORDER, a[2] + MINIMAP_TOP_BORDER>>

Coord(i) == i * GridStep
GridPoints == {<<Coord(i), Coord(j)>> : i \in 0..MaxGrid, j \in 0..MaxGrid}

\* What find_maplestory_window can return: None, or the bounds of a window.
SmallSide == Coord(MaxGrid) + 4
WindowInfos == {None,
                [width |-> SmallSide, height |-> SmallSide],
                [width |-> PT_WIDTH, height |-> PT_HEIGHT]}

DefaultWindow == [width |-> DEFAULT_WIDTH, height |-> DEFAULT_HEIGHT]

\* Lines 159-174: the window after one query, at least as large as the
\* anchor templates.
WindowAfterQuery(info) ==
    LET w == IF info # None THEN info ELSE DefaultWindow
    IN  [width  |-> Max(w.width, MMT_WIDTH),
         height |-> Max(w.height, MMT_HEIGHT)]

\* An image of size tw x th with top-left pixel p lies inside the frame.
Inside(p, tw, th, win) ==
    /\ p[1] + tw <= win.width
    /\ p[2] + th <= win.height

\* single_match reports the top-left pixel of the best match of the
\* top-left anchor and the bottom-right pixel of the best match of the
\* bottom-right anchor.
TLPoints(win) == {q \in GridPoints : Inside(q, MMT_WIDTH, MMT_HEIGHT, win)}
BRPoints(win) == {q \in GridPoints : /\ q[1] >= MMT_WIDTH /\ q[1] <= win.width
                                     /\ q[2] >= MMT_HEIGHT /\ q[2] <= win.height}
\* The player marker, when on screen, sits just inside the rectangle that a
\* top-left anchor on the grid's diagonal gives.
MarkerPoints == {MinimapTopLeft(<<Coord(i), Coord(i)>>) : i \in 0..MaxGrid}
PlayerPoints(win) == {q \in MarkerPoints : Inside(q, PT_WIDTH, PT_HEIGHT, win)}

\* The frames a successful grab of `win` can deliver.
Frames(win) ==
    {[width |-> win.width, height |-> win.height, tl |-> a, br |-> b, player |-> p] :
        a \in {NotFound} \cup TLPoints(win),
        b \in {NotFound} \cup BRPoints(win),
        p \in {NotFound} \cup PlayerPoints(win)}

\* Greatest common divisor, to store width / height as a reduced fraction.
Abs(a) == IF a < 0 THEN 0 - a ELSE a
RECURSIVE Gcd(_, _)
Gcd(a, b) == IF b = 0 THEN a ELSE Gcd(b, a % b)

\* Line 194: (mm_br[0] - mm_tl[0]) / (mm_br[1] - mm_tl[1]), the quotient as
\* a reduced fraction with a positive denominator; a zero divisor raises.
Ratio(w, h) ==
    IF h = 0 THEN "ZeroDivisionError"
    ELSE LET g == Gcd(Abs(w), Abs(h))
             sgn == IF h < 0 THEN 0 - 1 ELSE 1
         IN  <<sgn * (w \div g), sgn * (h \div g)>>

\* The bottom-right corner without the max() against the marker's size.
MinimapBottomRight_NoClamp(mtl, b) ==
    <<b[1] - MINIMAP_BOTTOM_BORDER, b[2] - MINIMAP_BOTTOM_BORDER>>

\* Lines 190-193: the rectangle's bottom-right corner.
MinimapBottomRight(mtl, b) ==
    <<Max(mtl[1] + PT_WIDTH, b[1] - MINIMAP_BOTTOM_BORDER),
      Max(mtl[2] + PT_HEIGHT, b[2] - MINIMAP_BOTTOM_BORDER)>>

\* Lines 195 and 209: frame[mm_tl[1]:mm_br[1], mm_tl[0]:mm_br[0]].  A slice
\* is cut off at the frame's edges.  The crop keeps its size and the
\* marker's position relative to it when the marker lies wholly inside.
Crop(f, mtl, mbr) ==
    LET x0 == Min(mtl[1], f.width)
        x1 == Min(mbr[1], f.width)
        y0 == Min(mtl[2], f.height)
        y1 == Min(mbr[2], f.height)
        p  == f.player
    IN  [width  |-> Max(0, x1 - x0),
         height |-> Max(0, y1 - y0),
         player |-> IF /\ p # NotFound
                       /\ p[1] >= x0 /\ p[1] + PT_WIDTH <= x1
                       /\ p[2] >= y0 /\ p[2] + PT_HEIGHT <= y1
                    THEN <<p[1] - x0, p[2] - y0>>
                    ELSE NotFound]

\* utils.multi_match(minimap, PLAYER_TEMPLATE, threshold=0.8): the centres of
\* the matches; none when the image is smaller than the template.
MultiMatch(c) ==
    IF c.width < PT_WIDTH \/ c.height < PT_HEIGHT \/ c.player = NotFound
    THEN <<>>
    ELSE << <<c.player[1] + PT_WIDTH \div 2, c.player[2] + PT_HEIGHT \div 2>> >>

\* utils.convert_to_relative(point, frame): the point as a fraction of the
\* image's size, in hundredths.
ConvertToRelative(pt, c) ==
    <<(100 * pt[1]) \div c.width, (100 * pt[2]) \div c.height>>

(***************************************************************************)
(* Capture.__init__ (lines 126-146) and config.player_pos.                 *)
(***************************************************************************)
CaptureInit ==
    /\ pc = "query"
    /\ window = DefaultWindow
    /\ frame = None
    /\ tl = NotFound
    /\ br = NotFound
    /\ mm_tl = NotFound
    /\ mm_br = NotFound
    /\ minimap_ratio = <<1, 1>>
    /\ minimap_sample = None
    /\ calibrated = FALSE
    /\ ready = FALSE
    /\ crop = None
    /\ player = <<>>
    /\ player_pos = <<0, 0>>
    /\ minimap = None
    /\ failures = 0

(***************************************************************************)
(* Capture._main, one action per step of the loop.                         *)
(***************************************************************************)

\* Lines 159-174: query the window and keep it at least template-sized.
QueryWindowOf(infos) ==
    /\ pc = "query"
    /\ \E info \in infos : window' = WindowAfterQuery(info)
    /\ pc' = "cal_grab"
    /\ UNCHANGED <<frame, tl, br, mm_tl, mm_br, minimap_ratio, minimap_sample,
                   calibrated, ready, crop, player, player_pos, minimap,
                   failures>>

QueryWindow == QueryWindowOf(WindowInfos)

\* Lines 177-180, screenshot succeeded with one of `frames`.
CalGrabOkOf(frames) ==
    /\ pc = "cal_grab"
    /\ failures' = 0
    /\ pc' = "cal_match"
    /\ UNCHANGED <<window, tl, br, mm_tl, mm_br, minimap_ratio, minimap_sample,
                   calibrated, ready, crop, player, player_pos, minimap>>
    /\ \E f \in frames : frame' = f

CalGrabOk == CalGrabOkOf(Frames(window))

\* Lines 177-180 and 232-240: screenshot slept and returned None; `continue`.
CalGrabFail ==
    /\ pc = "cal_grab"
    /\ frame' = None
    /\ failures' = Min(failures + 1, MaxFails)
    /\ pc' = "query"
    /\ UNCHANGED <<window, tl, br, mm_tl, mm_br, minimap_ratio, minimap_sample,
                   calibrated, ready, crop, player, player_pos, minimap>>

\* Lines 182-185: search both anchors in the full frame and test `tl and br`.
CalMatch ==
    /\ pc = "cal_match"
    /\ tl' = frame.tl
    /\ br' = frame.br
    /\ pc' = IF frame.tl # NotFound /\ frame.br # NotFound
             THEN "cal_rect" ELSE "cal_retry"
    /\ UNCHANGED <<window, frame, mm_tl, mm_br, minimap_ratio, minimap_sample,
                   calibrated, ready, crop, player, player_pos, minimap,
                   failures>>

\* A derivation whose top-left corner moves one pixel with every earlier
\* invalidation.
CalRect_Drift ==
    /\ pc = "cal_rect"
    /\ mm_tl' = <<MinimapTopLeft(tl)[1] + budget, MinimapTopLeft(tl)[2]>>
    /\ mm_br' = MinimapBottomRight(MinimapTopLeft(tl), br)
    /\ pc' = "cal_ratio"
    /\ UNCHANGED <<window, frame, tl, br, minimap_ratio, minimap_sample,
                   calibrated, ready, crop, player, player_pos, minimap,
                   failures>>

\* Lines 186-193: derive the rectangle from the anchors.
CalRect ==
    /\ pc = "cal_rect"
    /\ mm_tl' = MinimapTopLeft(tl)
    /\ mm_br' = MinimapBottomRight(MinimapTopLeft(tl), br)
    /\ pc' = "cal_ratio"
    /\ UNCHANGED <<window, frame, tl, br, minimap_ratio, minimap_sample,
                   calibrated, ready, crop, player, player_pos, minimap,
                   failures>>

\* Line 194.
CalRatio ==
    /\ pc = "cal_ratio"
    /\ minimap_ratio' = Ratio(mm_br[1] - mm_tl[1], mm_br[2] - mm_tl[2])
    /\ pc' = "cal_sample"
    /\ UNCHANGED <<window, frame, tl, br, mm_tl, mm_br, minimap_sample,
                   calibrated, ready, crop, player, player_pos, minimap,
                   failures>>

\* Line 195.
CalSample ==
    /\ pc = "cal_sample"
    /\ minimap_sample' = Crop(frame, mm_tl, mm_br)
    /\ pc' = "cal_set"
    /\ UNCHANGED <<window, frame, tl, br, mm_tl, mm_br, minimap_ratio,
                   calibrated, ready, crop, player, player_pos, minimap,
                   failures>>

\* Line 196.
CalSet ==
    /\ pc = "cal_set"
    /\ calibrated' = TRUE
    /\ pc' = "trk_check"
    /\ UNCHANGED <<window, frame, tl, br, mm_tl, mm_br, minimap_ratio,
                   minimap_sample, ready, crop, player, player_pos, minimap,
                   failures>>

\* Lines 228-230: anchors not found; sleep and calibrate again.
CalRetry ==
    /\ pc = "cal_retry"
    /\ pc' = "query"
    /\ UNCHANGED <<window, frame, tl, br, mm_tl, mm_br, minimap_ratio,
                   minimap_sample, calibrated, ready, crop, player, player_pos,
                   minimap, failures>>

\* A head of the tracking loop that never leaves the loop.
TrkCheck_NoBreak ==
    /\ pc = "trk_check"
    /\ pc' = "trk_grab"
    /\ UNCHANGED <<window, frame, tl, br, mm_tl, mm_br, minimap_ratio,
                   minimap_sample, calibrated, ready, crop, player, player_pos,
                   minimap, failures>>

\* Lines 199-201: the head of the tracking loop.
TrkCheck ==
    /\ pc = "trk_check"
    /\ pc' = IF calibrated THEN "trk_grab" ELSE "query"
    /\ UNCHANGED <<window, frame, tl, br, mm_tl, mm_br, minimap_ratio,
                   minimap_sample, calibrated, ready, crop, player, player_pos,
                   minimap, failures>>

\* Lines 204-206, screenshot succeeded with one of `frames`.
TrkGrabOkOf(frames) ==
    /\ pc = "trk_grab"
    /\ failures' = 0
    /\ pc' = "trk_match"
    /\ UNCHANGED <<window, tl, br, mm_tl, mm_br, minimap_ratio, minimap_sample,
                   calibrated, ready, crop, player, player_pos, minimap>>
    /\ \E f \in frames : frame' = f

TrkGrabOk == TrkGrabOkOf(Frames(window))

\* A failed grab that also drops the calibration.
TrkGrabFail_Recalibrate ==
    /\ pc = "trk_grab"
    /\ frame' = None
    /\ failures' = Min(failures + 1, MaxFails)
    /\ calibrated' = FALSE
    /\ pc' = "trk_check"
    /\ UNCHANGED <<window, tl, br, mm_tl, mm_br, minimap_ratio, minimap_sample,
                   ready, crop, player, player_pos, minimap>>

\* Lines 204-206 and 232-240: screenshot slept and returned None; `continue`.
TrkGrabFail ==
    /\ pc = "trk_grab"
    /\ frame' = None
    /\ failures' = Min(failures + 1, MaxFails)
    /\ pc' = "trk_check"
    /\ UNCHANGED <<window, tl, br, mm_tl, mm_br, minimap_ratio, minimap_sample,
                   calibrated, ready, crop, player, player_pos, minimap>>

\* A tracking step that drops the calibration when the frame shows no anchors.
TrkMatch_AnchorCheck ==
    /\ pc = "trk_match"
    /\ LET c == Crop(frame, mm_tl, mm_br)
           found == MultiMatch(c)
       IN  /\ crop' = c
           /\ player' = found
           /\ player_pos' = IF found # <<>>
                            THEN ConvertToRelative(found[1], c)
                            ELSE player_pos
    /\ calibrated' = (frame.tl # NotFound /\ frame.br # NotFound)
    /\ pc' = "trk_publish"
    /\ UNCHANGED <<window, frame, tl, br, mm_tl, mm_br, minimap_ratio,
                   minimap_sample, ready, minimap, failures>>

\* A tracking step that resets the position when the marker is not found.
TrkMatch_ResetOnMiss ==
    /\ pc = "trk_match"
    /\ LET c == Crop(frame, mm_tl, mm_br)
           found == MultiMatch(c)
       IN  /\ crop' = c
           /\ player' = found
           /\ player_pos' = IF found # <<>>
                            THEN ConvertToRelative(found[1], c)
                            ELSE <<0, 0>>
    /\ pc' = "trk_publish"
    /\ UNCHANGED <<window, frame, tl, br, mm_tl, mm_br, minimap_ratio,
                   minimap_sample, calibrated, ready, minimap, failures>>

\* Lines 209-214: crop, search the player marker in the crop, and store the
\* position when it is found.
TrkMatch ==
    /\ pc = "trk_match"
    /\ LET c == Crop(frame, mm_tl, mm_br)
           found == MultiMatch(c)
       IN  /\ crop' = c
           /\ player' = found
           /\ player_pos' = IF found # <<>>
                            THEN ConvertToRelative(found[1], c)
                            ELSE player_pos
    /\ pc' = "trk_publish"
    /\ UNCHANGED <<window, frame, tl, br, mm_tl, mm_br, minimap_ratio,
                   minimap_sample, calibrated, ready, minimap, failures>>

\* Lines 217-223: publish the snapshot.
TrkPublish ==
    /\ pc = "trk_publish"
    /\ minimap' = [minimap |-> crop, player_pos |-> player_pos]
    /\ pc' = "trk_ready"
    /\ UNCHANGED <<window, frame, tl, br, mm_tl, mm_br, minimap_ratio,
                   minimap_sample, calibrated, ready, crop, player, player_pos,
                   failures>>

\* An end of the tracking cycle that refits the rectangle and the ratio to
\* the anchors of the frame just tracked.
TrkReady_Refit ==
    /\ pc = "trk_ready"
    /\ ready' = TRUE
    /\ mm_tl' = IF frame.tl # NotFound THEN MinimapTopLeft(frame.tl) ELSE mm_tl
    /\ mm_br' = IF frame.tl # NotFound /\ frame.br # NotFound
                THEN MinimapBottomRight(MinimapTopLeft(frame.tl), frame.br)
                ELSE mm_br
    /\ minimap_ratio' = Ratio(mm_br'[1] - mm_tl'[1], mm_br'[2] - mm_tl'[2])
    /\ pc' = "trk_check"
    /\ UNCHANGED <<window, frame, tl, br, minimap_sample, calibrated, crop,
                   player, player_pos, minimap, failures>>

\* Lines 225-227.
TrkReady ==
    /\ pc = "trk_ready"
    /\ ready' = TRUE
    /\ pc' = "trk_check"
    /\ UNCHANGED <<window, frame, tl, br, mm_tl, mm_br, minimap_ratio,
                   minimap_sample, calibrated, crop, player, player_pos,
                   minimap, failures>>

CaptureStep ==
    \/ QueryWindow
    \/ CalGrabOk
    \/ CalGrabFail
    \/ CalMatch
    \/ CalRect
    \/ CalRatio
    \/ CalSample
    \/ CalSet
    \/ CalRetry
    \/ TrkCheck
    \/ TrkGrabOk
    \/ TrkGrabFail
    \/ TrkMatch
    \/ TrkPublish
    \/ TrkReady

(***************************************************************************)
(* TemplateMatcher (src/src/template_matcher.py).                          *)
(*                                                                         *)
(* template_cache is a Python dict, which keeps insertion order: it is a   *)
(* sequence of entries with distinct names.  An image is abstracted to its *)
(* size; a screen image to its size and, for every template name, the      *)
(* value of cv2.matchTemplate at each of a few offsets, listed in the      *)
(* row-major order in which np.where reports them.                         *)
(***************************************************************************)
NMS_THRESHOLD == 30            \* self.nms_threshold = 0.3
DEFAULT_THRESHOLD == 70        \* self.confidence_threshold = 0.7
SCREEN_WIDTH == 800
SCREEN_HEIGHT == 600

TemplateNames == {"a", "b"}
TemplateTypes == {"monster", "player"}
ConfLevels == {50, 70, 90}
Background == CHOOSE c \in ConfLevels : \A d \in ConfLevels : c <= d
Offsets == << <<0, 0>>, <<2, 1>>, <<10, 1>> >>

\* The metadata a sidecar can hold: a type, and possibly a threshold.
MetaOptions ==
    {[type |-> t] : t \in TemplateTypes}
    \cup {[type |-> t, confidence_threshold |-> c] :
              t \in TemplateTypes, c \in {50, 90}}

CacheEntries ==
    {[name |-> n, metadata |-> m, width |-> TemplateSide, height |-> TemplateSide] :
        n \in TemplateNames, m \in MetaOptions}

\* The caches of the model: at most one entry per name, in either order.
Caches ==
    {<<>>}
    \cup {<<e>> : e \in CacheEntries}
    \cup {<<e, f>> : e \in {x \in CacheEntries : x.name = "a"},
                     f \in {x \in CacheEntries : x.name = "b"}}
    \cup {<<f, e>> : e \in {x \in CacheEntries : x.name = "a"},
                     f \in {x \in CacheEntries : x.name = "b"}}

Slots == TemplateNames \X (1..Len(Offsets))

\* The screen images of the model: at most MaxHits places above the
\* background correlation.
Screens ==
    {[width |-> SCREEN_WIDTH, height |-> SCREEN_HEIGHT, corr |-> c] :
        c \in {f \in [Slots -> ConfLevels] :
                  Cardinality({k \in Slots : f[k] # Background}) <= MaxHits}}

\* The template_types arguments of the model; None and [] both mean no filter.
Filters == {{}, {"monster"}}

\* Line 140: metadata.get('type', 'unknown').
TemplateType(metadata) ==
    IF "type" \in DOMAIN metadata THEN metadata.type ELSE "unknown"

\* The threshold of every template taken from the matcher.
TemplateThreshold_GlobalOnly(metadata, global) == global

\* Line 147: metadata.get('confidence_threshold', self.confidence_threshold).
TemplateThreshold(metadata, global) ==
    IF "confidence_threshold" \in DOMAIN metadata
    THEN metadata.confidence_threshold
    ELSE global

\* Lines 197-205: one TemplateMatch.
TemplateMatch(x, y, w, h, conf, name, type) ==
    [x |-> x, y |-> y, width |-> w, height |-> h, confidence |-> conf,
     template_name |-> name, template_type |-> type]

\* Lines 181-212: _match_single_template.  cv2.matchTemplate raises when the
\* template is larger than the image, and the except clause then returns an
\* empty list.  Otherwise every offset with result >= threshold gives a
\* match, in np.where's order.
RECURSIVE MatchOffsets(_, _, _, _, _)
MatchOffsets(img, e, type, threshold, i) ==
    IF i > Len(Offsets) THEN <<>>
    ELSE LET o == Offsets[i]
             conf == img.corr[<<e.name, i>>]
             rest == MatchOffsets(img, e, type, threshold, i + 1)
         IN  IF /\ o[1] + e.width <= img.width
                /\ o[2] + e.height <= img.height
                /\ conf >= threshold
             THEN <<TemplateMatch(o[1], o[2], e.width, e.height, conf,
                                  e.name, type)>> \o rest
             ELSE rest

MatchSingleTemplate(img, e, type, threshold) ==
    IF e.width > img.width \/ e.height > img.height
    THEN <<>>
    ELSE MatchOffsets(img, e, type, threshold, 1)

\* A loop over the cache that a template too large for the image ends: the
\* templates after it are not matched.
RECURSIVE CollectMatches_StopOnFailure(_, _, _, _, _)
CollectMatches_StopOnFailure(cache, img, types, global, i) ==
    IF i > Len(cache) THEN <<>>
    ELSE LET e == cache[i]
             type == TemplateType(e.metadata)
             rest == CollectMatches_StopOnFailure(cache, img, types, global, i + 1)
         IN  IF types # {} /\ type \notin types
             THEN rest
             ELSE IF e.width > img.width \/ e.height > img.height
             THEN <<>>
             ELSE MatchSingleTemplate(img, e, type,
                                      TemplateThreshold(e.metadata, global))
                  \o rest

\* Lines 138-158: the loop over the cache.
RECURSIVE CollectMatches(_, _, _, _, _)
CollectMatches(cache, img, types, global, i) ==
    IF i > Len(cache) THEN <<>>
    ELSE LET e == cache[i]
             type == TemplateType(e.metadata)
             rest == CollectMatches(cache, img, types, global, i + 1)
         IN  IF types # {} /\ type \notin types
             THEN rest
             ELSE MatchSingleTemplate(img, e, type,
                                      TemplateThreshold(e.metadata, global))
                  \o rest

\* Line 161 and cv2's std::stable_sort: a stable sort by confidence,
\* highest first.
RECURSIVE InsertByConfidence(_, _)
InsertByConfidence(m, sorted) ==
    IF sorted = <<>> THEN <<m>>
    ELSE IF Head(sorted).confidence >= m.confidence
         THEN <<Head(sorted)>> \o InsertByConfidence(m, Tail(sorted))
         ELSE <<m>> \o sorted

RECURSIVE SortByConfidence(_)
SortByConfidence(ms) ==
    IF ms = <<>> THEN <<>>
    ELSE LET n == Len(ms)
         IN  InsertByConfidence(ms[n], SortByConfidence(SubSeq(ms, 1, n - 1)))

\* Intersection and union of two boxes [x, y, width, height], as cv2
\* computes the Jaccard overlap of two rectangles.
Intersection(a, b) ==
    LET w == Min(a.x + a.width, b.x + b.width) - Max(a.x, b.x)
        h == Min(a.y + a.height, b.y + b.height) - Max(a.y, b.y)
    IN  IF w > 0 /\ h > 0 THEN w * h ELSE 0
Union(a, b) == a.width * a.height + b.width * b.height - Intersection(a, b)

\* overlap > nms_threshold, with the threshold in hundredths.
OverlapsAbove(a, b, nms) == 100 * Intersection(a, b) > nms * Union(a, b)

\* cv2.dnn.NMSBoxes(boxes, scores, score_threshold, nms_threshold), line 252:
\* keep the boxes with score > score_threshold, order them by score, and
\* take each one that overlaps no box taken before by more than
\* nms_threshold.
RECURSIVE GreedyKeep(_, _, _)
GreedyKeep(sorted, kept, nms) ==
    IF sorted = <<>> THEN kept
    ELSE LET m == Head(sorted)
             keep == \A k \in 1..Len(kept) : ~OverlapsAbove(m, kept[k], nms)
         IN  GreedyKeep(Tail(sorted), IF keep THEN Append(kept, m) ELSE kept, nms)

ScoreAbove(ms, score_threshold) ==
    SelectSeq(ms, LAMBDA m : m.confidence > score_threshold)

NMSBoxes(ms, score_threshold, nms) ==
    GreedyKeep(SortByConfidence(ScoreAbove(ms, score_threshold)), <<>>, nms)

\* Lines 228-232: the types in the order of their first match.
RECURSIVE GroupOrder(_, _)
GroupOrder(ms, seen) ==
    IF ms = <<>> THEN seen
    ELSE LET t == Head(ms).template_type
         IN  GroupOrder(Tail(ms),
                        IF \E k \in 1..Len(seen) : seen[k] = t
                        THEN seen ELSE Append(seen, t))

OfType(ms, t) == SelectSeq(ms, LAMBDA m : m.template_type = t)

\* Lines 224-258: _apply_nms, suppression within each type, the groups one
\* after the other.
RECURSIVE NmsGroups(_, _, _, _)
NmsGroups(ms, types, global, nms) ==
    IF types = <<>> THEN <<>>
    ELSE NMSBoxes(OfType(ms, Head(types)), global, nms)
         \o NmsGroups(ms, Tail(types), global, nms)

\* Suppression over the whole list, without the grouping by type.
ApplyNms_NoGroups(ms, global, nms) == NMSBoxes(ms, global, nms)

ApplyNms(ms, global, nms) ==
    IF ms = <<>> THEN <<>>
    ELSE NmsGroups(ms, GroupOrder(ms, <<>>), global, nms)

\* Lines 136-161: the candidates, sorted by confidence.
SortedCandidates(cache, img, types, global) ==
    SortByConfidence(CollectMatches(cache, img, types, global, 1))

\* TemplateMatcher.__init__, lines 50-56, with the cache that
\* load_all_templates found, and the arguments of the call to come.
MatcherInit ==
    /\ template_cache \in Caches
    /\ confidence_threshold = DEFAULT_THRESHOLD
    /\ screen_image \in Screens \cup {None}
    /\ template_types \in Filters
    /\ last_call = None
    /\ candidates = <<>>
    /\ threshold_arg = None
    /\ matches = <<>>

\* Lines 122-164: match_templates(screen_image, template_types).
MatchTemplates ==
    /\ last_call' = [global |-> confidence_threshold]
    /\ IF screen_image = None
       THEN candidates' = <<>> /\ matches' = <<>>
       ELSE LET cs == SortedCandidates(template_cache, screen_image,
                                       template_types, confidence_threshold)
            IN  /\ candidates' = cs
                /\ matches' = ApplyNms(cs, confidence_threshold, NMS_THRESHOLD)
    /\ UNCHANGED <<template_cache, confidence_threshold, screen_image,
                   template_types, threshold_arg>>

\* A float argument: a number in hundredths, or NaN.
Float(v) == [nan |-> FALSE, v |-> v]
NaN == [nan |-> TRUE, v |-> 0]

\* Python's a < b on floats: false whenever an operand is NaN.
FloatLess(a, b) == ~a.nan /\ ~b.nan /\ a.v < b.v

\* Python's min(a, b) and max(a, b): the first argument unless the second
\* is smaller, respectively larger.
PyMin(a, b) == IF FloatLess(b, a) THEN b ELSE a
PyMax(a, b) == IF FloatLess(a, b) THEN b ELSE a

\* A clamp without the lower limit.
Clamp_NoFloor(t) == PyMin(Float(100), t)

\* Line 342: max(0.1, min(1.0, threshold)).
Clamp(t) == PyMax(Float(10), PyMin(Float(100), t))

\* Lines 340-342: set_confidence_threshold(threshold) for an argument out
\* of `args`.  The clamp never yields NaN, so the stored value is a number.
SetConfidenceThresholdOf(args) ==
    /\ \E t \in args :
          /\ threshold_arg' = t
          /\ confidence_threshold' = Clamp(t).v
    /\ UNCHANGED <<template_cache, screen_image, template_types, last_call,
                   candidates, matches>>

SetConfidenceThreshold == SetConfidenceThresholdOf({Float(5), Float(90)})

MatcherIdle ==
    /\ template_cache = <<>>
    /\ confidence_threshold = DEFAULT_THRESHOLD
    /\ screen_image = None
    /\ template_types = {}
    /\ last_call = None
    /\ candidates = <<>>
    /\ threshold_arg = None
    /\ matches = <<>>

\* No key is pressed and main() is not modelled.
KeysIdle ==
    /\ held = {}
    /\ kpc = "idle"
    /\ kkey = ""
    /\ kleft = 0
    /\ kpaused = FALSE
    /\ klast = [fn |-> "none", key |-> ""]
MainIdle ==
    /\ main_pc = "none"
    /\ started = <<>>
    /\ mod_ready = {}

\* AutoMapleGUI after construction (main_gui.py, lines 54-55, 80 and
\* 135-157): no bot thread, START enabled, STOP and PAUSE disabled.
GuiIdle ==
    /\ bot_running = FALSE
    /\ status_var = "Ready"
    /\ start_button = "normal"
    /\ stop_button = "disabled"
    /\ pause_button = "disabled"
    /\ bot_threads = <<>>
    /\ debug_last = ""
\* No template manager, no dialog.
InstIdle ==
    /\ mgr_cache = <<>>
    /\ dlg_open = FALSE
    /\ dlg_cache = <<>>
    /\ tested = [called |-> FALSE, cache |-> <<>>]
    /\ last_handler = "none"
\* Bot after construction (bot.py lines 38-57): the routine is empty and
\* the thread has not run.
BotIdle ==
    /\ bot_pc = "check"
    /\ routine_len = 0
    /\ routine_index = 0
    /\ observed = [enabled |-> FALSE, len |-> 0]
    /\ bot_act = [kind |-> "none", tick |-> FALSE]
\* A shape that stands for "no image", a point and a region that are None.
NoImage == [loaded |-> FALSE, w |-> 0, h |-> 0]
NoPoint == [set |-> FALSE, x |-> 0, y |-> 0]
NoRoi == [set |-> FALSE, x |-> 0, y |-> 0, w |-> 0, h |-> 0]
NoMouse == [kind |-> "none", button |-> "none", dragging |-> FALSE,
            loaded |-> FALSE]
\* No TemplateCreatorDialog has been constructed: it has no viewer and no
\* fields yet.
NoDialog == "no dialog"
CreatorIdle ==
    /\ screenshot = NoDialog
    /\ original_image = NoDialog
    /\ displayed_pixmap = NoDialog
    /\ widget_size = NoDialog
    /\ point1 = NoDialog
    /\ point2 = NoDialog
    /\ dragging = FALSE
    /\ selected_roi = NoDialog
    /\ name_input = NoDialog
    /\ create_button = FALSE
    /\ test_button = FALSE
    /\ dialog_result = NoDialog
    /\ saved_templates = {}
    /\ roi_emitted = NoDialog
    /\ mouse_last = NoDialog
UiIdle == GuiIdle /\ InstIdle /\ BotIdle /\ CreatorIdle

\* No history is kept, nothing outside the loop acts, the library is unused.
HistoryIdle ==
    /\ frame_no = 0
    /\ stamps = [pos |-> 0, crop |-> 0, snap_pos |-> 0, snap_crop |-> 0]
    /\ done = {}
    /\ first_cal = None
EnvIdle ==
    /\ enabled = TRUE
    /\ scene = None
    /\ budget = 0
StoreIdle ==
    /\ store = <<>>
    /\ op = None

Init ==
    CaptureInit /\ MatcherIdle /\ HistoryIdle /\ EnvIdle /\ StoreIdle /\ KeysIdle
    /\ MainIdle
    /\ UiIdle
Next ==
    /\ UNCHANGED <<matcherVars, historyVars, keyVars, mainVars, envVars,
                   storeVars, uiVars>>
    /\ CaptureStep
Spec == Init /\ [][Next]_vars

\* The matcher alone, over every cache of the model.
MatcherNext ==
    \/ MatchTemplates /\ UNCHANGED <<captureVars, historyVars, keyVars, mainVars, envVars, storeVars,
                uiVars>>
    \/ SetConfidenceThreshold /\ UNCHANGED <<captureVars, historyVars, keyVars, mainVars, envVars, storeVars,
                uiVars>>
MatcherSpecInit ==
    CaptureInit /\ MatcherInit /\ HistoryIdle /\ EnvIdle /\ StoreIdle /\ KeysIdle
    /\ MainIdle
    /\ UiIdle
MatcherSpec == MatcherSpecInit /\ [][MatcherNext]_vars

(***************************************************************************)
(* Claims about the capture loop.                                          *)
(***************************************************************************)
CalibrationPcs == {"query", "cal_grab", "cal_match", "cal_rect", "cal_ratio",
                   "cal_sample", "cal_set", "cal_retry"}
TrackingPcs == {"trk_check", "trk_grab", "trk_match", "trk_publish", "trk_ready"}

\* The rectangle derived from the anchors: top-left anchor + insets,
\* bottom-right anchor - insets.
DerivedWidth(a, b) ==
    (b[1] - MINIMAP_BOTTOM_BORDER) - (a[1] + MINIMAP_BOTTOM_BORDER)
DerivedHeight(a, b) ==
    (b[2] - MINIMAP_BOTTOM_BORDER) - (a[2] + MINIMAP_TOP_BORDER)
Degenerate(a, b) ==
    DerivedWidth(a, b) < PT_WIDTH \/ DerivedHeight(a, b) < PT_HEIGHT
BothFound == tl # NotFound /\ br # NotFound

\* C1: when both anchors are found but the rectangle derived from them is
\* narrower or shorter than the player marker (inverted and zero-area
\* included), the calibration cycle is rejected: calibrated stays false, no
\* rectangle is adopted from these anchors, and the loop goes on to retry.
C1_DegenerateRejected ==
    (BothFound /\ Degenerate(tl, br)) =>
        /\ ~calibrated
        /\ pc \notin {"cal_ratio", "cal_sample", "cal_set"}

\* C2: whenever calibrated is true, both anchors were found in the
\* calibration frame, the stored rectangle is the one derived from them, it
\* is at least as wide and as high as the player marker, and minimap_ratio
\* is its width divided by its height.
C2_CalibratedIsComplete ==
    calibrated =>
        /\ BothFound
        /\ mm_tl = MinimapTopLeft(tl)
        /\ mm_br[1] - mm_tl[1] >= PT_WIDTH
        /\ mm_br[2] - mm_tl[2] >= PT_HEIGHT
        /\ minimap_ratio = Ratio(mm_br[1] - mm_tl[1], mm_br[2] - mm_tl[2])

\* C2 witness: a consumer sees calibrated = true after a calibration whose
\* rectangle is not square.
C2_Witness ==
    /\ calibrated
    /\ pc = "trk_grab"
    /\ minimap_ratio # <<1, 1>>

\* C8: once calibrated, no step of the loop makes calibrated false, leaves
\* the tracking phase or searches the anchors again, whatever the frames
\* show.
C8_TrackingStaysCalibrated ==
    [][calibrated =>
          /\ calibrated'
          /\ pc \in TrackingPcs
          /\ pc' \in TrackingPcs
          /\ tl' = tl /\ br' = br]_vars

\* C8 witness: a second or later tracking cycle has just finished its search
\* on a frame without anchors in which the player marker was found.
C8_Witness ==
    /\ calibrated
    /\ ready
    /\ pc = "trk_publish"
    /\ frame.tl = NotFound
    /\ frame.br = NotFound
    /\ player # <<>>

\* C9: a tracking search that does not find the marker leaves player_pos,
\* calibrated and the rectangle as they were, and player_pos changes only in
\* a tracking search that finds the marker.
C9_MissKeepsPosition ==
    [][/\ (pc = "trk_match" /\ player' = <<>>) =>
              /\ player_pos' = player_pos
              /\ calibrated' = calibrated
              /\ mm_tl' = mm_tl
              /\ mm_br' = mm_br
       /\ (player_pos' # player_pos) => (pc = "trk_match" /\ player' # <<>>)]_vars

\* C9 witness: the marker was just missed while an earlier cycle's position
\* is still stored.
C9_Witness ==
    /\ pc = "trk_publish"
    /\ player = <<>>
    /\ player_pos # <<0, 0>>

\* C10: a failed grab, in either phase, is followed by the head of the loop
\* it happened in (never by a search or by the anchors-not-found branch) and
\* leaves calibrated, the rectangle, minimap_ratio, player_pos and the
\* published snapshot unchanged.
C10_GrabFailureRetries ==
    [][(pc \in {"cal_grab", "trk_grab"} /\ frame' = None) =>
          /\ pc' = (IF pc = "cal_grab" THEN "query" ELSE "trk_check")
          /\ UNCHANGED <<calibrated, mm_tl, mm_br, minimap_ratio, player_pos,
                         minimap, tl, br, crop, player>>]_vars

\* C10 witness: MaxFails grabs in a row have failed while tracking, after
\* grabs had also failed during calibration, and the loop is at its head
\* again, still calibrated.
C10_Witness ==
    /\ failures = MaxFails
    /\ calibrated
    /\ pc = "trk_check"

(***************************************************************************)
(* Claims about match_templates.                                           *)
(***************************************************************************)
Called == last_call # None

\* The cache entry of a template name.
EntryOf(name) ==
    CHOOSE e \in {template_cache[k] : k \in 1..Len(template_cache)} : e.name = name

InMatches(c) == \E k \in 1..Len(matches) : matches[k] = c

\* C3: every match returned has a confidence of at least the threshold of
\* the template that produced it: the metadata's confidence_threshold, or
\* the matcher's threshold at the call when the metadata has none.
C3_MatchMeetsTemplateThreshold ==
    Called =>
        \A k \in 1..Len(matches) :
            matches[k].confidence >=
                (IF "confidence_threshold" \in DOMAIN EntryOf(matches[k].template_name).metadata
                 THEN EntryOf(matches[k].template_name).metadata.confidence_threshold
                 ELSE last_call.global)

\* C3 witness: the result holds a match of a template with its own
\* threshold above the matcher's, and a match of a template without one.
C3_Witness ==
    /\ Called
    /\ \E k \in 1..Len(matches) :
          LET m == EntryOf(matches[k].template_name).metadata
          IN  /\ "confidence_threshold" \in DOMAIN m
              /\ m.confidence_threshold > last_call.global
    /\ \E k \in 1..Len(matches) :
          "confidence_threshold" \notin DOMAIN EntryOf(matches[k].template_name).metadata

\* C4: no two matches of the same type in the result overlap by more than
\* the suppression threshold, and a candidate above the score threshold is
\* missing from the result only when a returned match of its own type
\* overlaps it by more than the suppression threshold.
C4_NoSameTypeOverlap ==
    Called =>
        /\ \A i \in 1..Len(matches) : \A j \in 1..Len(matches) :
              (i # j /\ matches[i].template_type = matches[j].template_type)
                  => ~OverlapsAbove(matches[i], matches[j], NMS_THRESHOLD)
        /\ \A k \in 1..Len(candidates) :
              (candidates[k].confidence > last_call.global /\ ~InMatches(candidates[k]))
                  => \E j \in 1..Len(matches) :
                        /\ matches[j].template_type = candidates[k].template_type
                        /\ OverlapsAbove(candidates[k], matches[j], NMS_THRESHOLD)

\* C4 witness: a candidate was suppressed by a match of its own type while
\* two matches of different types that overlap above the threshold are both
\* in the result.
C4_Witness ==
    /\ Called
    /\ \E k \in 1..Len(candidates) :
          candidates[k].confidence > last_call.global /\ ~InMatches(candidates[k])
    /\ \E i \in 1..Len(matches) : \E j \in 1..Len(matches) :
          /\ matches[i].template_type # matches[j].template_type
          /\ OverlapsAbove(matches[i], matches[j], NMS_THRESHOLD)

\* C5: of exactly two candidates that overlap by more than the suppression
\* threshold, the result holds exactly one when they have the same type,
\* one whose confidence is not below the other's, and both when their types
\* differ.
C5_TwoOverlappingCandidates ==
    (/\ Called
     /\ Len(candidates) = 2
     /\ OverlapsAbove(candidates[1], candidates[2], NMS_THRESHOLD)) =>
        IF candidates[1].template_type = candidates[2].template_type
        THEN /\ Len(matches) = 1
             /\ matches[1] \in {candidates[1], candidates[2]}
             /\ matches[1].confidence >= candidates[1].confidence
             /\ matches[1].confidence >= candidates[2].confidence
        ELSE /\ Len(matches) = 2
             /\ InMatches(candidates[1])
             /\ InMatches(candidates[2])

\* C6: every offset of a template that passes the filter whose confidence is
\* at least the template's threshold is a candidate, and every candidate
\* that no other candidate of its type with at least its confidence
\* overlaps by more than the suppression threshold is in the result.
C6_UnsuppressedCandidateReturned ==
    (Called /\ screen_image # None) =>
        /\ \A n \in 1..Len(template_cache) : \A i \in 1..Len(Offsets) :
              LET e == template_cache[n]
                  conf == screen_image.corr[<<e.name, i>>]
              IN  (/\ template_types = {} \/ TemplateType(e.metadata) \in template_types
                   /\ conf >= TemplateThreshold(e.metadata, last_call.global))
                  => \E k \in 1..Len(candidates) :
                        /\ candidates[k].template_name = e.name
                        /\ candidates[k].x = Offsets[i][1]
                        /\ candidates[k].y = Offsets[i][2]
                        /\ candidates[k].confidence = conf
        /\ \A k \in 1..Len(candidates) :
              (\A j \in 1..Len(candidates) :
                  (/\ j # k
                   /\ candidates[j].template_type = candidates[k].template_type
                   /\ candidates[j].confidence >= candidates[k].confidence)
                  => ~OverlapsAbove(candidates[k], candidates[j], NMS_THRESHOLD))
              => InMatches(candidates[k])

\* C7: the result is sorted by confidence, highest first, over the whole
\* list.
C7_ResultSortedByConfidence ==
    Called =>
        \A i \in 1..Len(matches) : \A j \in 1..Len(matches) :
            i < j => matches[i].confidence >= matches[j].confidence

(***************************************************************************)
(* The capture loop with the frames numbered.  Every successful grab       *)
(* delivers the next frame; stamps records the frame behind the crop and   *)
(* behind config.player_pos (a search that misses the marker confirms the  *)
(* retained position for its frame), and the frames behind the two parts   *)
(* of the published snapshot.                                              *)
(***************************************************************************)
Stamp ==
    /\ frame_no' = IF pc \in {"cal_grab", "trk_grab"} /\ frame' # None
                   THEN Min(frame_no + 1, MaxFrames)
                   ELSE frame_no
    /\ stamps' = IF pc = "trk_match"
                 THEN [stamps EXCEPT !.crop = frame_no, !.pos = frame_no]
                 ELSE IF pc = "trk_publish"
                 THEN [stamps EXCEPT !.snap_crop = stamps.crop,
                                     !.snap_pos = stamps.pos]
                 ELSE stamps

SnapshotNext ==
    /\ CaptureStep
    /\ Stamp
    /\ UNCHANGED <<matcherVars, done, first_cal, envVars, storeVars, keyVars,
                   mainVars, uiVars>>
SnapshotSpec == Init /\ [][SnapshotNext]_vars

\* C11: a consumer that reads the published snapshot and config.player_pos
\* at any moment finds the crop of Capture.minimap, its player_pos entry and
\* config.player_pos all belonging to the same frame.
C11_SnapshotNotTorn ==
    minimap # None =>
        /\ stamps.snap_pos = stamps.snap_crop
        /\ stamps.pos = stamps.snap_crop

(***************************************************************************)
(* The capture loop with Capture.calibrated cleared from outside while the *)
(* loop is tracking.  calibrated is a public attribute; the loop reads it  *)
(* at line 200.  done collects the stages of the calibration cycle under   *)
(* way or completed since the loop last started one: it is emptied when    *)
(* line 200 sees calibrated false and whenever a cycle starts over.        *)
(***************************************************************************)
AllStages == {"window", "capture", "anchors", "rect"}

\* The frames of this specification: those whose anchors, when found, lie
\* on the grid's diagonal.
DiagonalPoints == {<<Coord(i), Coord(i)>> : i \in 0..MaxGrid}
DiagonalFrames(win) ==
    {f \in Frames(win) : /\ f.tl \in {NotFound} \cup DiagonalPoints
                         /\ f.br \in {NotFound} \cup DiagonalPoints}

RecalStep ==
    \/ QueryWindow
    \/ CalGrabOkOf(DiagonalFrames(window))
    \/ CalGrabFail
    \/ CalMatch
    \/ CalRect
    \/ CalRatio
    \/ CalSample
    \/ CalSet
    \/ CalRetry
    \/ TrkCheck
    \/ TrkGrabOkOf(DiagonalFrames(window))
    \/ TrkGrabFail
    \/ TrkMatch
    \/ TrkPublish
    \/ TrkReady

Invalidate ==
    /\ calibrated
    /\ pc \in {"trk_check", "trk_grab", "trk_match", "trk_publish", "trk_ready"}
    /\ budget < MaxInvalidations
    /\ calibrated' = FALSE
    /\ budget' = budget + 1
    /\ UNCHANGED <<pc, window, frame, tl, br, mm_tl, mm_br, minimap_ratio,
                   minimap_sample, ready, crop, player, player_pos, minimap,
                   failures, enabled, scene>>

Stages ==
    done' = CASE pc = "trk_check" /\ ~calibrated -> {}
              [] pc = "query" -> {"window"}
              [] pc = "cal_grab" /\ frame' # None -> done \cup {"capture"}
              [] pc = "cal_grab" /\ frame' = None -> {}
              [] pc = "cal_match" -> done \cup {"anchors"}
              [] pc = "cal_rect" -> done \cup {"rect"}
              [] pc = "cal_retry" -> {}
              [] OTHER -> done

RecalNext ==
    \/ /\ RecalStep
       /\ Stages
       /\ UNCHANGED <<matcherVars, frame_no, stamps, first_cal, envVars, storeVars,
                    keyVars, mainVars, uiVars>>
    \/ /\ Invalidate
       /\ UNCHANGED <<matcherVars, historyVars, keyVars, mainVars, storeVars, uiVars>>
RecalSpec == Init /\ [][RecalNext]_vars

\* C12: while the loop is in the tracking phase no step changes
\* minimap_ratio, minimap_sample, mm_tl or mm_br; they change only in the
\* steps of a calibration cycle that derive them (lines 186-195).
C12_TrackingKeepsCalibration ==
    [][/\ pc \in {"trk_check", "trk_grab", "trk_match", "trk_publish", "trk_ready"}
          => UNCHANGED <<minimap_ratio, minimap_sample, mm_tl, mm_br>>
       /\ ~(UNCHANGED <<minimap_ratio, minimap_sample, mm_tl, mm_br>>)
          => pc \in {"cal_rect", "cal_ratio", "cal_sample"}]_vars

\* A tracking cycle has run to its end on a frame whose anchors have moved
\* away from the calibrated ones.
C12_Witness ==
    /\ calibrated
    /\ ready
    /\ pc = "trk_check"
    /\ frame # None
    /\ frame.tl # NotFound
    /\ frame.br # NotFound
    /\ MinimapTopLeft(frame.tl) # mm_tl

\* C13: when the head of the tracking loop sees calibrated false, the loop
\* goes to the window query without grabbing, cropping or searching another
\* frame, and it is only ever in a tracking step that uses the rectangle
\* after a calibration cycle begun since then has queried the window,
\* grabbed a full frame, searched both anchors and derived the rectangle.
C13_InvalidationRecalibrates ==
    [][/\ (pc = "trk_check" /\ ~calibrated)
          => (pc' = "query" /\ UNCHANGED <<frame, crop, player, player_pos, minimap>>)
       /\ pc' \in {"trk_grab", "trk_match", "trk_publish", "trk_ready"}
          => done' = AllStages]_vars

\* The loop tracks again after an invalidation.
C13_Witness ==
    /\ budget >= 1
    /\ calibrated
    /\ pc = "trk_publish"
    /\ done = AllStages

(***************************************************************************)
(* The capture loop in front of one fixed scene: every window query gives  *)
(* the same answer and every grab delivers the same frame.  calibrated may *)
(* be cleared from outside MaxInvalidations times, so that later           *)
(* calibration cycles run on the same frame.  first_cal keeps what the     *)
(* first completed calibration cycle left in mm_tl, mm_br and              *)
(* minimap_ratio.  The capture thread runs forever (lines 157 and 199 are  *)
(* `while True`), hence weak fairness of its step.                         *)
(***************************************************************************)
Scenes ==
    UNION {{[info |-> i, frame |-> f] : f \in Frames(WindowAfterQuery(i))} :
              i \in WindowInfos}

FixedInit ==
    /\ CaptureInit
    /\ MatcherIdle
    /\ HistoryIdle
    /\ KeysIdle
    /\ MainIdle
    /\ UiIdle
    /\ StoreIdle
    /\ enabled = TRUE
    /\ budget = 0
    /\ scene \in Scenes

Calibration == [mm_tl |-> mm_tl, mm_br |-> mm_br, ratio |-> minimap_ratio]

FixedStep ==
    /\ \/ QueryWindowOf({scene.info})
       \/ CalGrabOkOf({scene.frame})
       \/ CalMatch
       \/ CalRect
       \/ CalRatio
       \/ CalSample
       \/ CalSet
       \/ CalRetry
       \/ TrkCheck
       \/ TrkGrabOkOf({scene.frame})
       \/ TrkMatch
       \/ TrkPublish
       \/ TrkReady
    /\ first_cal' = IF pc = "cal_set" /\ first_cal = None
                    THEN Calibration ELSE first_cal
    /\ UNCHANGED <<matcherVars, frame_no, stamps, done, envVars, storeVars,
                   keyVars, mainVars, uiVars>>

FixedNext ==
    \/ FixedStep
    \/ Invalidate /\ UNCHANGED <<matcherVars, historyVars, keyVars, mainVars, storeVars, uiVars>>
FixedFrameSpec == FixedInit /\ [][FixedNext]_vars /\ WF_vars(FixedStep)

\* The scene shows both anchors, at positions whose derived rectangle is at
\* least as large as the player marker.
NonDegenerateScene ==
    /\ scene.frame.tl # NotFound
    /\ scene.frame.br # NotFound
    /\ ~Degenerate(scene.frame.tl, scene.frame.br)

\* C14: in front of a fixed frame with both anchors at positions that give
\* a non-degenerate rectangle, the loop started uncalibrated eventually has
\* calibrated true for good, and whenever a calibration cycle has completed
\* the rectangle and the ratio are those of the first completed cycle.
C14_FixedFrameConverges ==
    NonDegenerateScene =>
        /\ <>[]calibrated
        /\ [](first_cal # None /\ pc \in TrackingPcs => Calibration = first_cal)

\* A calibration cycle after an invalidation has completed on the fixed
\* frame.
C14_Witness ==
    /\ NonDegenerateScene
    /\ budget >= 1
    /\ calibrated
    /\ pc = "trk_check"
    /\ first_cal # None

(***************************************************************************)
(* The capture loop beside the two writers of config.enabled: the          *)
(* keyboard listener (listener.py, toggle_bot) and the GUI checkbox        *)
(* (gui.py, toggle_bot).  No statement of capture.py reads config.enabled. *)
(***************************************************************************)
PauseInit ==
    /\ CaptureInit
    /\ MatcherIdle
    /\ HistoryIdle
    /\ KeysIdle
    /\ MainIdle
    /\ UiIdle
    /\ StoreIdle
    /\ enabled \in BOOLEAN
    /\ scene = None
    /\ budget = 0

\* listener.py lines 50-54.
ListenerToggleBot ==
    /\ enabled' = ~enabled
    /\ UNCHANGED <<captureVars, matcherVars, historyVars, keyVars, mainVars, scene, budget,
                   storeVars, uiVars>>

\* gui.py lines 103-106: the checkbox's value is stored.
GuiToggleBot ==
    /\ \E v \in BOOLEAN : enabled' = v
    /\ UNCHANGED <<captureVars, matcherVars, historyVars, keyVars, mainVars, scene, budget,
                   storeVars, uiVars>>

PauseNext ==
    \/ CaptureStep /\ UNCHANGED <<matcherVars, historyVars, keyVars, mainVars, envVars, storeVars,
                uiVars>>
    \/ ListenerToggleBot
    \/ GuiToggleBot
PauseSpec == PauseInit /\ [][PauseNext]_vars

\* C15: while config.enabled is false the capture loop starts no further
\* cycle (a cycle under way may run to its end): it stays at the head of
\* the tracking loop, or at the window query, and it leaves calibrated, the
\* rectangle and minimap_ratio as they are.
C15_PausedLoopIdle ==
    [][~enabled =>
          /\ pc \in {"trk_check", "query"} => pc' = pc
          /\ UNCHANGED <<calibrated, mm_tl, mm_br, minimap_ratio>>]_vars

(***************************************************************************)
(* The capture loop as a thread that is never starved: lines 157 and 199   *)
(* are `while True`, and every step of the loop terminates (a failed grab  *)
(* sleeps and returns), so the loop's step is weakly fair.                 *)
(***************************************************************************)
LiveSpec == Init /\ [][Next]_vars /\ WF_vars(Next)

\* C16: in every infinite run of the capture loop the window bounds are
\* queried (find_maplestory_window, line 159) again and again, whatever the
\* calibrator's state.
C16_WindowQueriedForever == []<>(pc = "query")

(***************************************************************************)
(* The template library and its directory (template_matcher.py, lines      *)
(* 39-120 and 260-327).  store gives, for every name, the state of         *)
(* <name>.png and of <name>.json.  A file is absent, unreadable (a         *)
(* truncated or partial write), or holds an image or a metadata record.    *)
(* Of the metadata only the fields the matcher reads are kept.             *)
(***************************************************************************)
Absent == [absent |-> TRUE]
Corrupt == [corrupt |-> TRUE]
Image == [width |-> TemplateSide, height |-> TemplateSide]

\* Lines 100-105.
DefaultMetadata == [type |-> "unknown", confidence_threshold |-> DEFAULT_THRESHOLD]

\* Lines 280-287, for the (template_type, confidence_threshold) arguments of
\* the model.
SaveMetadata ==
    {[type |-> "monster", confidence_threshold |-> 90],
     [type |-> "player", confidence_threshold |-> 50]}

Stores ==
    [TemplateNames -> [png : {Absent, Corrupt, Image},
                       json : {Absent, Corrupt} \cup SaveMetadata]]

\* The record of the last call: what it was and returned, whether a file
\* operation in it failed, whether it is a load that follows an interrupted
\* save, and, for a load, the names it found cached without an image file.
\* A save records the metadata it was given; load_all_templates records the
\* call before it.
NoOp == [kind |-> "none", name |-> "", ret |-> TRUE, failed |-> FALSE,
         interrupted |-> FALSE, stale |-> {}, meta |-> None, prev |-> None]

\* Lines 80-120: load_template(name), as the cache entry it stores, or None
\* when it returns False.  json.load raises on an unreadable sidecar; the
\* handler at line 118 returns False.
LoadTemplate(st, n) ==
    IF st[n].png = Absent \/ st[n].png = Corrupt THEN None
    ELSE IF st[n].json = Corrupt THEN None
    ELSE [name |-> n,
          metadata |-> IF st[n].json = Absent THEN DefaultMetadata ELSE st[n].json,
          width |-> st[n].png.width,
          height |-> st[n].png.height]

\* An assignment that adds an entry whether or not the name has one.
CachePut_Append(cache, e) == Append(cache, e)

\* template_cache[name] = entry: a dict keeps the place of a key it has.
CachePut(cache, e) ==
    IF \E i \in 1..Len(cache) : cache[i].name = e.name
    THEN [i \in 1..Len(cache) |-> IF cache[i].name = e.name THEN e ELSE cache[i]]
    ELSE Append(cache, e)

\* del template_cache[name].
CacheDel(cache, n) == SelectSeq(cache, LAMBDA e : e.name # n)

CachedNames(cache) == {cache[i].name : i \in 1..Len(cache)}

\* The orders in which glob("*.png") can list the directory.
GlobOrders ==
    {o \in [1..Cardinality(TemplateNames) -> TemplateNames] :
        \A i, j \in DOMAIN o : i # j => o[i] # o[j]}

RECURSIVE LoadInto(_, _, _, _)
LoadInto(cache, st, order, i) ==
    IF i > Len(order) THEN cache
    ELSE LET e == LoadTemplate(st, order[i])
         IN  LoadInto(IF e = None THEN cache ELSE CachePut(cache, e),
                      st, order, i + 1)

\* Lines 58-68 with a loop that ends after the first file of the listing.
LoadAll_FirstOnly(cache, st, order) == LoadInto(<<>>, st, SubSeq(order, 1, 1), 1)

\* Lines 58-68 without line 60: the entries of the cache are kept.
LoadAll_NoClear(cache, st, order) == LoadInto(cache, st, order, 1)

\* Lines 58-68: clear the cache, then load every <name>.png of the listing.
LoadAll(cache, st, order) == LoadInto(<<>>, st, order, 1)

\* TemplateMatcher.__init__ (lines 39-56) over a directory in any state.
StoreInit ==
    /\ CaptureInit
    /\ HistoryIdle
    /\ KeysIdle
    /\ MainIdle
    /\ UiIdle
    /\ EnvIdle
    /\ store \in Stores
    /\ \E o \in GlobOrders : template_cache = LoadAll(<<>>, store, o)
    /\ op = [NoOp EXCEPT !.kind = "load"]
    /\ confidence_threshold = DEFAULT_THRESHOLD
    /\ screen_image = None
    /\ template_types = {}
    /\ last_call = None
    /\ candidates = <<>>
    /\ threshold_arg = None
    /\ matches = <<>>

\* Lines 274-306: save_template(image, name, template_type, threshold).
\* cv2.imwrite (line 277) either writes the file, or fails and returns False
\* (the file untouched, or left partial), or raises; its return value is not
\* looked at.  Opening the sidecar for writing (line 290) can raise, and so
\* can json.dump (line 291) after the file was truncated.
SaveTemplate ==
    \E n \in TemplateNames, m \in SaveMetadata,
       img \in {"written", "false", "partial", "raise"},
       js \in {"written", "open", "dump"} :
        /\ img = "raise" => js = "written"
        /\ LET png1 == CASE img = "written" -> Image
                         [] img = "partial" -> Corrupt
                         [] OTHER -> store[n].png
               json1 == CASE img = "raise" -> store[n].json
                          [] js = "written" -> m
                          [] js = "dump" -> Corrupt
                          [] OTHER -> store[n].json
               raised == img = "raise" \/ js # "written"
           IN  /\ store' = [store EXCEPT ![n] = [png |-> png1, json |-> json1]]
               /\ template_cache' =
                      IF raised THEN template_cache
                      ELSE CachePut(template_cache,
                                    [name |-> n, metadata |-> m,
                                     width |-> Image.width,
                                     height |-> Image.height])
               /\ op' = [NoOp EXCEPT !.kind = "save", !.name = n,
                                     !.meta = m,
                                     !.ret = ~raised,
                                     !.failed = (img # "written" \/ js # "written")]
        /\ UNCHANGED <<confidence_threshold, screen_image, template_types,
                       last_call, candidates, matches, threshold_arg>>

\* save_template stopped between line 277 and line 290 (the process is
\* killed, or an interrupt passes the handler at line 304): the image is
\* written, the sidecar and the cache are as they were.
SaveInterrupted ==
    \E n \in TemplateNames :
        /\ store' = [store EXCEPT ![n].png = Image]
        /\ op' = [NoOp EXCEPT !.kind = "interrupt", !.name = n, !.ret = FALSE]
        /\ UNCHANGED matcherVars

\* The metadata cached for a name, None when the name is not cached.
CachedMetadata(cache, n) ==
    IF n \in CachedNames(cache)
    THEN (CHOOSE e \in {cache[i] : i \in 1..Len(cache)} : e.name = n).metadata
    ELSE None

\* A delete_template that removes the image and the cache entry and leaves
\* the sidecar.
DeleteTemplate_KeepSidecar ==
    \E n \in TemplateNames :
        /\ store' = [store EXCEPT ![n].png = Absent]
        /\ template_cache' = CacheDel(template_cache, n)
        /\ op' = [NoOp EXCEPT !.kind = "delete", !.name = n,
                              !.meta = CachedMetadata(template_cache, n)]
        /\ UNCHANGED <<confidence_threshold, screen_image, template_types,
                       last_call, candidates, matches, threshold_arg>>

\* Lines 308-327: delete_template(name).  unlink of a file that exists can
\* raise; the handler at line 325 returns False.
DeleteTemplate ==
    \E n \in TemplateNames, fail \in {"none", "png", "json"} :
        /\ fail = "png" => store[n].png # Absent
        /\ fail = "json" => store[n].json # Absent
        /\ store' = [store EXCEPT ![n] =
                        CASE fail = "png" -> store[n]
                          [] fail = "json" -> [png |-> Absent, json |-> store[n].json]
                          [] OTHER -> [png |-> Absent, json |-> Absent]]
        /\ template_cache' = IF fail = "none"
                             THEN CacheDel(template_cache, n)
                             ELSE template_cache
        /\ op' = [NoOp EXCEPT !.kind = "delete", !.name = n,
                              !.ret = (fail = "none"),
                              !.failed = (fail # "none"),
                              !.meta = CachedMetadata(template_cache, n)]
        /\ UNCHANGED <<confidence_threshold, screen_image, template_types,
                       last_call, candidates, matches, threshold_arg>>

\* Lines 70-120: load_template(name) called on its own.
LoadOneTemplate ==
    \E n \in TemplateNames :
        LET e == LoadTemplate(store, n)
        IN  /\ template_cache' = IF e = None THEN template_cache
                                 ELSE CachePut(template_cache, e)
            /\ op' = [NoOp EXCEPT !.kind = "load_template", !.name = n,
                                  !.ret = (e # None)]
            /\ UNCHANGED <<store, confidence_threshold, screen_image,
                           template_types, last_call, candidates, matches, threshold_arg>>

\* Lines 58-68: load_all_templates().
LoadAllTemplates ==
    /\ \E o \in GlobOrders : template_cache' = LoadAll(template_cache, store, o)
    /\ op' = [NoOp EXCEPT !.kind = "load",
                          !.name = IF op.kind = "interrupt" THEN op.name ELSE "",
                          !.interrupted = (op.kind = "interrupt"),
                          !.prev = [kind |-> op.kind, name |-> op.name,
                                    ret |-> op.ret, failed |-> op.failed,
                                    meta |-> op.meta],
                          !.stale = {n \in CachedNames(template_cache) :
                                        store[n].png = Absent}]
    /\ UNCHANGED <<store, confidence_threshold, screen_image, template_types,
                   last_call, candidates, matches, threshold_arg>>

StoreNext ==
    \/ SaveTemplate /\ UNCHANGED <<captureVars, historyVars, keyVars, mainVars, envVars, uiVars>>
    \/ SaveInterrupted /\ UNCHANGED <<captureVars, historyVars, keyVars, mainVars, envVars, uiVars>>
    \/ DeleteTemplate /\ UNCHANGED <<captureVars, historyVars, keyVars, mainVars, envVars, uiVars>>
    \/ LoadOneTemplate /\ UNCHANGED <<captureVars, historyVars, keyVars, mainVars, envVars, uiVars>>
    \/ LoadAllTemplates /\ UNCHANGED <<captureVars, historyVars, keyVars, mainVars, envVars, uiVars>>
StoreSpec == StoreInit /\ [][StoreNext]_vars

\* C17: every name in template_cache has its image file in the store.
C17_CachedImagePresent ==
    \A n \in CachedNames(template_cache) : store[n].png # Absent

\* C18: when a store write or removal inside save_template or
\* delete_template fails, the call returns False and template_cache is what
\* it was before the call.
C18_FailureReportedCacheKept ==
    [][(op'.kind \in {"save", "delete"} /\ op'.failed)
          => (op'.ret = FALSE /\ template_cache' = template_cache)]_vars

\* C19: the load_all_templates that follows a save_template interrupted
\* between the image and the sidecar caches the name with the default
\* metadata, whatever the store held before.
C19_InterruptedSaveLoadsDefault ==
    (op.kind = "load" /\ op.interrupted) =>
        \E i \in 1..Len(template_cache) :
            /\ template_cache[i].name = op.name
            /\ template_cache[i].metadata = DefaultMetadata

\* The names whose image file can be read.
LoadableImages == {n \in TemplateNames : store[n].png = Image}

\* The entry load_all_templates is to leave for a name whose sidecar is
\* missing or readable.
Loaded(e) ==
    /\ e.metadata = IF store[e.name].json = Absent
                    THEN DefaultMetadata
                    ELSE store[e.name].json
    /\ e.width = store[e.name].png.width
    /\ e.height = store[e.name].png.height

\* C20 as stated: after load_all_templates the cache holds exactly the
\* names with a loadable <name>.png, and a name without a sidecar has the
\* default metadata.
C20_CacheIsLoadableImages ==
    op.kind = "load" =>
        /\ CachedNames(template_cache) = LoadableImages
        /\ \A i \in 1..Len(template_cache) :
               store[template_cache[i].name].json = Absent
                   => template_cache[i].metadata = DefaultMetadata

\* C20, amended: after load_all_templates the cache holds, once each,
\* exactly the names with a loadable <name>.png whose sidecar is missing or
\* readable; a name whose sidecar cannot be parsed is skipped.  A cached
\* name without a sidecar has type 'unknown' and threshold 0.7, one with a
\* sidecar has the sidecar's metadata.
C20_CacheIsReadablePairs ==
    op.kind = "load" =>
        /\ CachedNames(template_cache) =
               {n \in LoadableImages : store[n].json # Corrupt}
        /\ Len(template_cache) = Cardinality(CachedNames(template_cache))
        /\ \A i \in 1..Len(template_cache) : Loaded(template_cache[i])
        /\ op.stale \cap CachedNames(template_cache) = {}

\* load_all_templates has run with a name cached whose image file is gone,
\* over a directory that holds an image without a sidecar.
C20_Witness ==
    /\ op.kind = "load"
    /\ op.stale # {}
    /\ \E i \in 1..Len(template_cache) :
           /\ store[template_cache[i].name].json = Absent
           /\ template_cache[i].metadata = DefaultMetadata

\* A name whose files make load_template give up: an unreadable image, or
\* a readable image beside a sidecar that cannot be parsed.
BadFiles(n) ==
    \/ store[n].png = Corrupt
    \/ store[n].png = Image /\ store[n].json = Corrupt

\* C21: load_all_templates completes for every store content, and a bad
\* file costs only its own template: afterwards every name with a readable
\* image and a missing or readable sidecar is in the cache.
C21_BadFileSkipsOnlyItself ==
    op.kind = "load" =>
        /\ op.ret
        /\ \A n \in TemplateNames :
               (store[n].png = Image /\ store[n].json # Corrupt)
                   => n \in CachedNames(template_cache)

\* load_all_templates was called over a directory with a bad file for one
\* name and has cached another name.
C21_Witness ==
    /\ op.kind = "load"
    /\ op.prev # None
    /\ \E n \in TemplateNames :
           /\ BadFiles(n)
           /\ CachedNames(template_cache) = TemplateNames \ {n}

CacheEntrySet(cache) == {cache[i] : i \in 1..Len(cache)}

\* C22: template_cache never holds two entries with the same name, and a
\* load_all_templates that directly follows another one leaves the same
\* names with the same type, threshold and dimensions.
C22_NamesUniqueLoadIdempotent ==
    /\ [](\A i, j \in 1..Len(template_cache) :
              template_cache[i].name = template_cache[j].name => i = j)
    /\ [][(op.kind = "load" /\ op'.kind = "load")
             => CacheEntrySet(template_cache') = CacheEntrySet(template_cache)]_vars

\* load_all_templates has run twice in a row with every name in the cache.
C22_Witness ==
    /\ op.kind = "load"
    /\ op.prev # None
    /\ op.prev.kind = "load"
    /\ CachedNames(template_cache) = TemplateNames

\* C23: the load_all_templates that follows a save_template which returned
\* True leaves an entry for the saved name with the saved image's width and
\* height and the saved type and threshold.
C23_SaveLoadRoundTrip ==
    (op.kind = "load" /\ op.prev # None /\ op.prev.kind = "save" /\ op.prev.ret) =>
        \E i \in 1..Len(template_cache) :
            /\ template_cache[i].name = op.prev.name
            /\ template_cache[i].metadata = op.prev.meta
            /\ template_cache[i].width = Image.width
            /\ template_cache[i].height = Image.height

\* C24: a delete_template(name) that returns True leaves name out of the
\* cache and neither of its files in the store, and changes no other
\* name's files or cache entry; the load_all_templates that follows does
\* not cache name again.
C24_DeleteRemovesEverything ==
    /\ [][(op'.kind = "delete" /\ op'.ret) =>
             /\ op'.name \notin CachedNames(template_cache')
             /\ store'[op'.name] = [png |-> Absent, json |-> Absent]
             /\ \A m \in TemplateNames \ {op'.name} :
                    /\ store'[m] = store[m]
                    /\ CachedMetadata(template_cache', m)
                           = CachedMetadata(template_cache, m)
                    /\ (m \in CachedNames(template_cache'))
                           = (m \in CachedNames(template_cache))]_vars
    /\ []((op.kind = "load" /\ op.prev # None /\ op.prev.kind = "delete"
              /\ op.prev.ret)
             => op.prev.name \notin CachedNames(template_cache))

\* A cached template was deleted, load_all_templates has run since, and the
\* other template is still cached.
C24_Witness ==
    /\ op.kind = "load"
    /\ op.prev # None
    /\ op.prev.kind = "delete"
    /\ op.prev.ret
    /\ op.prev.meta # None
    /\ CachedNames(template_cache) = TemplateNames \ {op.prev.name}

(***************************************************************************)
(* Key presses (src/common/vkeys.py, lines 108-153) beside the writers of  *)
(* config.enabled.  The bot is one thread: it calls press, key_down and    *)
(* key_up one after the other.  utils.run_if_enabled is not part of the    *)
(* sources; it is taken to skip a call made while config.enabled is false. *)
(***************************************************************************)
MaxPresses == 2

\* The key arguments of the model: a mapped key in both cases, a second
\* mapped key, and a string KEY_MAP does not have.
KeyArgs == {"a", "A", "shift", "bogus"}
KEY_MAP == {"a", "shift"}

\* str.lower() on the key arguments.
Lower(key) == IF key = "A" THEN "a" ELSE key

\* utils.run_if_enabled: whether a decorated call made now runs its body.
RunIfEnabled == enabled

\* Lines 108-121: key_down(key); the decorator skips it when disabled.
KeyDown(h, key) ==
    IF RunIfEnabled /\ Lower(key) \in KEY_MAP THEN h \cup {Lower(key)} ELSE h

\* A key_up under the same decorator as key_down.
KeyUp_IfEnabled(h, key) ==
    IF RunIfEnabled /\ Lower(key) \in KEY_MAP THEN h \ {Lower(key)} ELSE h

\* Lines 124-135: key_up(key), not decorated.
KeyUp(h, key) ==
    IF Lower(key) \in KEY_MAP THEN h \ {Lower(key)} ELSE h

KeysInit ==
    /\ CaptureInit
    /\ MatcherIdle
    /\ HistoryIdle
    /\ StoreIdle
    /\ KeysIdle
    /\ MainIdle
    /\ UiIdle
    /\ enabled \in BOOLEAN
    /\ scene = None
    /\ budget = 0

\* Lines 138-149: press(key, n) is called; the decorator skips the whole
\* call when disabled, and range(n) is empty for n = 0.
PressCall ==
    /\ kpc = "idle"
    /\ \E key \in KeyArgs, n \in 0..MaxPresses :
           IF RunIfEnabled /\ n > 0
           THEN kpc' = "key_down" /\ kkey' = key /\ kleft' = n
           ELSE UNCHANGED <<kpc, kkey, kleft>>
    /\ kpaused' = FALSE
    /\ UNCHANGED <<held, klast>>

\* Lines 150-151: key_down(key), then the sleep.
PressKeyDown ==
    /\ kpc = "key_down"
    /\ held' = KeyDown(held, kkey)
    /\ kpc' = "key_up"
    /\ klast' = [fn |-> "key_down", key |-> kkey]
    /\ UNCHANGED <<kkey, kleft, kpaused>>

\* Lines 152-153: key_up(key), then the sleep; the loop ends after n rounds.
PressKeyUp ==
    /\ kpc = "key_up"
    /\ held' = KeyUp(held, kkey)
    /\ kleft' = kleft - 1
    /\ kpc' = IF kleft > 1 THEN "key_down" ELSE "idle"
    /\ kpaused' = (kpaused \/ (~enabled /\ Lower(kkey) \in held))
    /\ klast' = [fn |-> "key_up", key |-> kkey]
    /\ UNCHANGED kkey

\* key_down(key) called by the bot outside press.
KeyDownCall ==
    /\ kpc = "idle"
    /\ \E key \in KeyArgs :
           /\ held' = KeyDown(held, key)
           /\ klast' = [fn |-> "key_down", key |-> key]
    /\ UNCHANGED <<kpc, kkey, kleft, kpaused>>

\* key_up(key) called by the bot outside press.
KeyUpCall ==
    /\ kpc = "idle"
    /\ \E key \in KeyArgs :
           /\ held' = KeyUp(held, key)
           /\ klast' = [fn |-> "key_up", key |-> key]
    /\ UNCHANGED <<kpc, kkey, kleft, kpaused>>

KeysNext ==
    \/ PressCall /\ UNCHANGED <<captureVars, matcherVars, historyVars, envVars, storeVars, mainVars,
                uiVars>>
    \/ PressKeyDown /\ UNCHANGED <<captureVars, matcherVars, historyVars, envVars, storeVars, mainVars,
                uiVars>>
    \/ PressKeyUp /\ UNCHANGED <<captureVars, matcherVars, historyVars, envVars, storeVars, mainVars,
                uiVars>>
    \/ KeyDownCall /\ UNCHANGED <<captureVars, matcherVars, historyVars, envVars, storeVars, mainVars,
                uiVars>>
    \/ KeyUpCall /\ UNCHANGED <<captureVars, matcherVars, historyVars, envVars, storeVars, mainVars,
                uiVars>>
    \/ ListenerToggleBot
    \/ GuiToggleBot
KeysSpec == KeysInit /\ [][KeysNext]_vars

\* C25: key_up releases its key whatever config.enabled is, so the key of a
\* press() is not held when press() returns, even when config.enabled went
\* false between the key-down and the key-up.
C25_KeyUpAlwaysReleases ==
    /\ [](klast.fn = "key_up" => Lower(klast.key) \notin held)
    /\ [][(kpc # "idle" /\ kpc' = "idle") => Lower(kkey) \notin held']_vars

\* press() has returned with no key held after releasing a key that was
\* down while config.enabled was false.
C25_Witness ==
    /\ kpc = "idle"
    /\ kpaused
    /\ held = {}

(***************************************************************************)
(* match_templates over caches in which a template may be wider than the   *)
(* screen image, so that cv2.matchTemplate raises for it (line 189) and    *)
(* the handler at line 209 returns no match for that template.             *)
(***************************************************************************)
Widen(cache, big) ==
    [i \in 1..Len(cache) |->
        IF cache[i].name \in big
        THEN [cache[i] EXCEPT !.width = SCREEN_WIDTH + TemplateSide]
        ELSE cache[i]]

OversizeCaches == {Widen(c, big) : c \in Caches, big \in SUBSET TemplateNames}

OversizeInit ==
    /\ CaptureInit
    /\ HistoryIdle
    /\ EnvIdle
    /\ StoreIdle
    /\ KeysIdle
    /\ MainIdle
    /\ UiIdle
    /\ template_cache \in OversizeCaches
    /\ confidence_threshold = DEFAULT_THRESHOLD
    /\ screen_image \in Screens \cup {None}
    /\ template_types \in Filters
    /\ last_call = None
    /\ candidates = <<>>
    /\ threshold_arg = None
    /\ matches = <<>>
OversizeSpec == OversizeInit /\ [][MatcherNext]_vars

\* The templates the type filter lets through.
Selected(e) ==
    template_types = {} \/ TemplateType(e.metadata) \in template_types

\* The template is no larger than the screen image.
Fits(e) == e.width <= screen_image.width /\ e.height <= screen_image.height

\* No selected template that fits reaches its threshold at any offset.
NoneReaches ==
    \A i \in 1..Len(template_cache), k \in 1..Len(Offsets) :
        (Selected(template_cache[i]) /\ Fits(template_cache[i])) =>
            screen_image.corr[<<template_cache[i].name, k>>]
                < TemplateThreshold(template_cache[i].metadata, last_call.global)

\* C26: match_templates returns the empty list when the frame is None, when
\* the cache is empty and when no template reaches its threshold; a
\* template on which matching fails gives no match, and the candidates of
\* the other templates are those a cache without it gives.
C26_FailureGivesNoMatch ==
    Called =>
        /\ screen_image = None => matches = <<>>
        /\ template_cache = <<>> => matches = <<>>
        /\ (screen_image # None /\ NoneReaches) => matches = <<>>
        /\ screen_image # None =>
               /\ \A k \in 1..Len(candidates) :
                      Fits(EntryOf(candidates[k].template_name))
               /\ candidates =
                      SortedCandidates(SelectSeq(template_cache, Fits),
                                       screen_image, template_types,
                                       last_call.global)

\* match_templates has returned a match of one template although matching
\* the template before it in the cache failed.
C26_Witness ==
    /\ Called
    /\ screen_image # None
    /\ Len(template_cache) > 1
    /\ ~Fits(template_cache[1])
    /\ Selected(template_cache[1])
    /\ \E k \in 1..Len(matches) :
           matches[k].template_name = template_cache[Len(template_cache)].name

\* C27: a calibration that succeeds adopts the rectangle whose top-left
\* corner is the top-left anchor plus (MINIMAP_BOTTOM_BORDER,
\* MINIMAP_TOP_BORDER) and whose bottom-right corner is the bottom-right
\* anchor minus (MINIMAP_BOTTOM_BORDER, MINIMAP_BOTTOM_BORDER).
C27_RectangleIsAnchorsInset ==
    calibrated =>
        /\ mm_tl = <<tl[1] + MINIMAP_BOTTOM_BORDER, tl[2] + MINIMAP_TOP_BORDER>>
        /\ mm_br = <<br[1] - MINIMAP_BOTTOM_BORDER, br[2] - MINIMAP_BOTTOM_BORDER>>

(***************************************************************************)
(* set_confidence_threshold over arguments below, inside and above the     *)
(* limits, infinite (as numbers far outside) and NaN.                      *)
(***************************************************************************)
ThresholdArgs ==
    {Float(v) : v \in {0 - 1000, 0 - 5, 0, 5, 10, 50, 80, 100, 150, 1000}}
        \cup {NaN}

ThresholdInit ==
    /\ CaptureInit
    /\ HistoryIdle
    /\ EnvIdle
    /\ StoreIdle
    /\ KeysIdle
    /\ MainIdle
    /\ UiIdle
    /\ template_cache \in Caches
    /\ confidence_threshold = DEFAULT_THRESHOLD
    /\ screen_image = None
    /\ template_types = {}
    /\ last_call = None
    /\ candidates = <<>>
    /\ matches = <<>>
    /\ threshold_arg = None
ThresholdNext ==
    SetConfidenceThresholdOf(ThresholdArgs)
        /\ UNCHANGED <<captureVars, historyVars, keyVars, mainVars, envVars,
                       storeVars, uiVars>>
ThresholdSpec == ThresholdInit /\ [][ThresholdNext]_vars

C29_CropHoldsMarker ==
    (calibrated /\ pc = "trk_publish") =>
        /\ crop.width >= PT_WIDTH
        /\ crop.height >= PT_HEIGHT

(***************************************************************************)
(* main() (main.py, lines 71-105) and the threads it starts.  The state    *)
(* after construction: the four modules exist, no thread runs.  Each       *)
(* `while not x.ready: time.sleep(0.01)` is left in the step that finds    *)
(* the flag set.                                                           *)
(***************************************************************************)
Modules == <<"bot", "capture", "notifier", "listener", "gui">>
StartPc == [bot |-> "start_bot", capture |-> "start_capture",
            notifier |-> "start_notifier", listener |-> "start_listener",
            gui |-> "start_gui"]
WaitPc == [bot |-> "wait_bot", capture |-> "wait_capture",
           notifier |-> "wait_notifier", listener |-> "wait_listener"]
Threads == DOMAIN WaitPc
Following(m) == Modules[(CHOOSE i \in 1..Len(Modules) : Modules[i] = m) + 1]

Started(m) == \E i \in 1..Len(started) : started[i] = m

\* x.ready of module m.
IsReady(m) == IF m = "capture" THEN ready ELSE m \in mod_ready

MainInit ==
    /\ CaptureInit
    /\ MatcherIdle
    /\ HistoryIdle
    /\ EnvIdle
    /\ StoreIdle
    /\ KeysIdle
    /\ UiIdle
    /\ main_pc = StartPc["bot"]
    /\ started = <<>>
    /\ mod_ready = {}

\* Lines 79, 84, 89 and 94: x.start().
MainStart(m) ==
    /\ main_pc = StartPc[m]
    /\ started' = Append(started, m)
    /\ main_pc' = WaitPc[m]
    /\ UNCHANGED mod_ready

\* A loop that is left whether or not the flag is set.
MainWait_NoPoll(m) ==
    /\ main_pc = WaitPc[m]
    /\ main_pc' = StartPc[Following(m)]
    /\ UNCHANGED <<started, mod_ready>>

\* Lines 80-81, 85-86, 90-91 and 95-96: while not x.ready: time.sleep(0.01).
MainWait(m) ==
    /\ main_pc = WaitPc[m]
    /\ IsReady(m)
    /\ main_pc' = StartPc[Following(m)]
    /\ UNCHANGED <<started, mod_ready>>

\* Lines 101-111: GUI() and gui.start() inside try; an exception raised by
\* the constructor or by start() leads to the headless loop.
MainStartGui ==
    /\ main_pc = StartPc["gui"]
    /\ \E outcome \in {"runs", "constructor_raises", "start_raises"} :
          /\ started' = IF outcome = "constructor_raises"
                        THEN started ELSE Append(started, "gui")
          /\ main_pc' = IF outcome = "runs" THEN "gui" ELSE "headless"
    /\ UNCHANGED mod_ready

\* bot.py line 75, notifier.py line 26, listener.py line 42: the thread's
\* _main sets self.ready = True.
ThreadReady(m) ==
    /\ m \in Threads \ {"capture"}
    /\ Started(m)
    /\ m \notin mod_ready
    /\ mod_ready' = mod_ready \cup {m}
    /\ UNCHANGED <<main_pc, started>>

\* Capture._main runs once capture.start() has started its thread.
CaptureThread == Started("capture") /\ RecalStep

MainNext ==
    \/ /\ \E m \in Threads : MainStart(m)
       /\ UNCHANGED <<captureVars, matcherVars, historyVars, envVars,
                      storeVars, keyVars, uiVars>>
    \/ /\ \E m \in Threads : MainWait(m)
       /\ UNCHANGED <<captureVars, matcherVars, historyVars, envVars,
                      storeVars, keyVars, uiVars>>
    \/ /\ MainStartGui
       /\ UNCHANGED <<captureVars, matcherVars, historyVars, envVars,
                      storeVars, keyVars, uiVars>>
    \/ /\ \E m \in Threads : ThreadReady(m)
       /\ UNCHANGED <<captureVars, matcherVars, historyVars, envVars,
                      storeVars, keyVars, uiVars>>
    \/ /\ CaptureThread
       /\ UNCHANGED <<matcherVars, historyVars, envVars, storeVars, keyVars,
                      mainVars, uiVars>>
MainSpec == MainInit /\ [][MainNext]_vars

\* C30: main() starts the modules in the order bot, capture, notifier,
\* listener, GUI, each only after the one before it has set ready;
\* capture.ready becomes true only at the end of a tracking cycle that
\* followed a successful calibration and never becomes false again; and the
\* notifier, the listener and the GUI are started only in runs in which a
\* calibration has succeeded.
C30_StartOrderAfterReady ==
    /\ [](/\ Len(started) <= Len(Modules)
          /\ \A i \in 1..Len(started) : started[i] = Modules[i]
          /\ (Started("notifier") \/ Started("listener") \/ Started("gui"))
                 => (ready /\ calibrated /\ BothFound))
    /\ [][/\ started' # started =>
                 /\ \E m \in DOMAIN StartPc : started' = Append(started, m)
                 /\ started # <<>> => IsReady(started[Len(started)])
          /\ ready => ready'
          /\ (~ready /\ ready') =>
                 /\ pc = "trk_ready"
                 /\ calibrated
                 /\ BothFound
                 /\ crop # None
                 /\ minimap # None]_vars

\* All five modules were started and the GUI runs, while the capture loop
\* tracks on a frame that shows no anchor.
C30_Witness ==
    /\ Len(started) = Len(Modules)
    /\ main_pc = "gui"
    /\ ready
    /\ frame # None
    /\ frame.tl = NotFound

(***************************************************************************)
(* AutoMapleGUI's bot control (src/src/main_gui.py, lines 264-305).  The   *)
(* button handlers run on the Tk main thread, one at a time; a disabled    *)
(* button does not call its command.  Every START creates a thread that    *)
(* runs bot_main_loop; the thread's position is one of                     *)
(*   "check"    at `while self.bot_running` (line 295),                    *)
(*   "body"     inside the loop, before status_var.set (line 298),         *)
(*   "sleep"    in time.sleep(1) (line 299),                               *)
(*   "exit"     past the loop, before status_var.set (line 305),           *)
(*   "finished" returned.                                                  *)
(* The loop's body is status_var.set and time.sleep, which do not raise    *)
(* while the window exists, so the handler of lines 301-303 is not entered.*)
(***************************************************************************)
MaxStarts == 3

\* Lines 264-276: start_bot.
StartBot ==
    /\ start_button = "normal"
    /\ Len(bot_threads) < MaxStarts
    /\ bot_running' = TRUE
    /\ status_var' = "Bot Starting..."
    /\ start_button' = "disabled"
    /\ stop_button' = "normal"
    /\ pause_button' = "normal"
    /\ bot_threads' = Append(bot_threads, "check")
    /\ debug_last' = "Bot started"

\* Lines 278-286: stop_bot.
StopBot ==
    /\ stop_button = "normal"
    /\ bot_running' = FALSE
    /\ status_var' = "Bot Stopping..."
    /\ start_button' = "normal"
    /\ stop_button' = "disabled"
    /\ pause_button' = "disabled"
    /\ debug_last' = "Bot stopped"
    /\ UNCHANGED bot_threads

\* Lines 288-291: pause_bot.
PauseBot ==
    /\ pause_button = "normal"
    /\ debug_last' = "Pause functionality will be implemented in Phase 3"
    /\ UNCHANGED <<bot_running, status_var, start_button, stop_button,
                   pause_button, bot_threads>>

\* A loop that reads the flag once, when the thread starts.
LoopCheck_Once(i) ==
    /\ i \in 1..Len(bot_threads)
    /\ bot_threads[i] = "check"
    /\ bot_threads' = [bot_threads EXCEPT ![i] = "body"]
    /\ UNCHANGED <<bot_running, status_var, start_button, stop_button,
                   pause_button, debug_last>>

\* Line 295: while self.bot_running.
LoopCheck(i) ==
    /\ i \in 1..Len(bot_threads)
    /\ bot_threads[i] = "check"
    /\ bot_threads' = [bot_threads EXCEPT
                          ![i] = IF bot_running THEN "body" ELSE "exit"]
    /\ UNCHANGED <<bot_running, status_var, start_button, stop_button,
                   pause_button, debug_last>>

\* Line 298: self.status_var.set("Bot Running...").
LoopStatus(i) ==
    /\ i \in 1..Len(bot_threads)
    /\ bot_threads[i] = "body"
    /\ status_var' = "Bot Running..."
    /\ bot_threads' = [bot_threads EXCEPT ![i] = "sleep"]
    /\ UNCHANGED <<bot_running, start_button, stop_button, pause_button,
                   debug_last>>

\* Line 299: time.sleep(1) returns.
LoopSleep(i) ==
    /\ i \in 1..Len(bot_threads)
    /\ bot_threads[i] = "sleep"
    /\ bot_threads' = [bot_threads EXCEPT ![i] = "check"]
    /\ UNCHANGED <<bot_running, status_var, start_button, stop_button,
                   pause_button, debug_last>>

\* Line 305: self.status_var.set("Bot Stopped"), and the thread returns.
LoopExit(i) ==
    /\ i \in 1..Len(bot_threads)
    /\ bot_threads[i] = "exit"
    /\ status_var' = "Bot Stopped"
    /\ bot_threads' = [bot_threads EXCEPT ![i] = "finished"]
    /\ UNCHANGED <<bot_running, start_button, stop_button, pause_button,
                   debug_last>>

\* One step of thread i.
LoopStep(i) ==
    \/ LoopCheck(i)
    \/ LoopStatus(i)
    \/ LoopSleep(i)
    \/ LoopExit(i)

GuiInit ==
    /\ CaptureInit
    /\ MatcherIdle
    /\ HistoryIdle
    /\ EnvIdle
    /\ StoreIdle
    /\ KeysIdle
    /\ MainIdle
    /\ UiIdle

GuiNext ==
    \/ /\ StartBot
       /\ UNCHANGED <<captureVars, matcherVars, historyVars, envVars,
                      storeVars, keyVars, mainVars, instVars,
                      botVars, creatorVars>>
    \/ /\ StopBot
       /\ UNCHANGED <<captureVars, matcherVars, historyVars, envVars,
                      storeVars, keyVars, mainVars, instVars,
                      botVars, creatorVars>>
    \/ /\ PauseBot
       /\ UNCHANGED <<captureVars, matcherVars, historyVars, envVars,
                      storeVars, keyVars, mainVars, instVars,
                      botVars, creatorVars>>
    \/ /\ \E i \in 1..MaxStarts : LoopCheck(i)
       /\ UNCHANGED <<captureVars, matcherVars, historyVars, envVars,
                      storeVars, keyVars, mainVars, instVars,
                      botVars, creatorVars>>
    \/ /\ \E i \in 1..MaxStarts : LoopStatus(i)
       /\ UNCHANGED <<captureVars, matcherVars, historyVars, envVars,
                      storeVars, keyVars, mainVars, instVars,
                      botVars, creatorVars>>
    \/ /\ \E i \in 1..MaxStarts : LoopSleep(i)
       /\ UNCHANGED <<captureVars, matcherVars, historyVars, envVars,
                      storeVars, keyVars, mainVars, instVars,
                      botVars, creatorVars>>
    \/ /\ \E i \in 1..MaxStarts : LoopExit(i)
       /\ UNCHANGED <<captureVars, matcherVars, historyVars, envVars,
                      storeVars, keyVars, mainVars, instVars,
                      botVars, creatorVars>>

\* Some thread that can take a step takes one.
LoopSteps ==
    /\ \E i \in 1..MaxStarts : LoopStep(i)
    /\ UNCHANGED <<captureVars, matcherVars, historyVars, envVars, storeVars,
                   keyVars, mainVars, instVars,
                      botVars, creatorVars>>

\* The operating system schedules the threads and time.sleep(1) returns:
\* while a bot thread can take a step, one of them eventually does.
GuiSpec == GuiInit /\ [][GuiNext]_vars /\ WF_vars(LoopSteps)

\* Thread i is inside the loop: its last test of bot_running was true.
InLoop(i) == bot_threads[i] \in {"body", "sleep"}

\* C31: whatever the sequence and timing of START and STOP presses, at most
\* one bot_main_loop thread is inside its loop.
C31_OneLoopThread ==
    Cardinality({i \in 1..Len(bot_threads) : InLoop(i)}) <= 1

\* Every thread started so far has returned.
AllFinished == \A i \in 1..Len(bot_threads) : bot_threads[i] = "finished"

\* C32: once stop_bot has been called and start_bot is not called again,
\* every bot_main_loop thread eventually leaves its loop and the status
\* becomes and stays "Bot Stopped"; and always START is disabled exactly
\* when bot_running is true, STOP and PAUSE are enabled exactly then.
C32_StopReachesStopped ==
    /\ [](/\ (start_button = "disabled") <=> bot_running
          /\ (stop_button = "normal") <=> bot_running
          /\ (pause_button = "normal") <=> bot_running)
    /\ <>[](~bot_running /\ bot_threads # <<>>)
           => <>[](status_var = "Bot Stopped" /\ AllFinished)

\* After the last STOP two threads, started by two START presses, have both
\* returned and the status is "Bot Stopped".
C32_Witness ==
    /\ ~bot_running
    /\ debug_last = "Bot stopped"
    /\ Len(bot_threads) > 1
    /\ AllFinished
    /\ status_var = "Bot Stopped"

(***************************************************************************)
(* The TemplateMatcher instances of the GUI over one templates directory:  *)
(* AutoMapleGUI.template_matcher (main_gui.py line 41, the variable        *)
(* template_cache here), PyQtTemplateManager.template_matcher              *)
(* (pyqt_template_manager.py line 436) and the matcher every               *)
(* TemplateCreatorDialog creates for itself (line 229).  Each constructor  *)
(* calls load_all_templates (template_matcher.py line 51).  The dialog is  *)
(* modal: while it is open no handler of AutoMapleGUI runs.                *)
(***************************************************************************)
\* save_template's effect on the directory (template_matcher.py, lines
\* 274-306) for the outcomes of cv2.imwrite and of writing the sidecar.
SavedFiles(st, n, m, img, js) ==
    [st EXCEPT ![n] =
        [png  |-> CASE img = "written" -> Image
                    [] img = "partial" -> Corrupt
                    [] OTHER -> st[n].png,
         json |-> CASE img = "raise" -> st[n].json
                    [] js = "written" -> m
                    [] js = "dump" -> Corrupt
                    [] OTHER -> st[n].json]]

\* save_template returns False: an exception reached the handler at line 304.
SaveRaised(img, js) == img = "raise" \/ js # "written"

\* The caches load_all_templates can build from the directory.
Loads(st) == {LoadAll(<<>>, st, o) : o \in GlobOrders}

\* The directories AutoMapleGUI is started on: for every name no file, an
\* image, or an image with its sidecar.
InstanceStores ==
    {st \in Stores : \A n \in TemplateNames :
        /\ st[n].png \in {Absent, Image}
        /\ st[n].json # Corrupt
        /\ st[n].png = Absent => st[n].json = Absent}

\* The outcomes of a save in the dialog: both files written; cv2.imwrite
\* returns False and the sidecar is written; the sidecar cannot be opened.
DialogSaveOutcomes ==
    {<<"written", "written">>, <<"false", "written">>, <<"written", "open">>}

\* AutoMapleGUI.__init__ (lines 38-51) and run() (lines 589-594), which
\* calls refresh_status and with it refresh_template_list.
InstancesInit ==
    /\ CaptureInit
    /\ HistoryIdle
    /\ KeysIdle
    /\ MainIdle
    /\ GuiIdle
    /\ BotIdle
    /\ CreatorIdle
    /\ EnvIdle
    /\ store \in InstanceStores
    /\ template_cache \in Loads(store)
    /\ mgr_cache \in Loads(store)
    /\ op = [NoOp EXCEPT !.kind = "load"]
    /\ confidence_threshold = DEFAULT_THRESHOLD
    /\ screen_image = None
    /\ template_types = {}
    /\ last_call = None
    /\ candidates = <<>>
    /\ threshold_arg = None
    /\ matches = <<>>
    /\ dlg_open = FALSE
    /\ dlg_cache = <<>>
    /\ tested = [called |-> FALSE, cache |-> <<>>]
    /\ last_handler = "run"

\* main_gui.py lines 343-362 up to dialog.exec_(): capture_screen_pyqt5
\* calls capture_and_create_template (pyqt_template_manager.py lines
\* 438-478), which returns False without a game window or a screenshot and
\* otherwise constructs the dialog, whose matcher loads the directory.
DialogOpen ==
    /\ ~dlg_open
    /\ \E shot \in BOOLEAN :
          IF shot
          THEN /\ dlg_open' = TRUE
               /\ dlg_cache' \in Loads(store)
               /\ last_handler' = "capture_open"
          ELSE /\ UNCHANGED <<dlg_open, dlg_cache>>
               /\ last_handler' = "create_failed"
    /\ UNCHANGED <<store, template_cache, mgr_cache, tested>>

\* A create that closes the dialog and returns without refreshing the list.
DialogCreate_NoRefresh ==
    /\ dlg_open
    /\ \E n \in TemplateNames, m \in SaveMetadata :
          /\ store' = SavedFiles(store, n, m, "written", "written")
    /\ dlg_open' = FALSE
    /\ dlg_cache' = <<>>
    /\ last_handler' = "create_accepted"
    /\ UNCHANGED <<template_cache, mgr_cache, tested>>

\* pyqt_template_manager.py lines 346-387: create_template saves through
\* the dialog's matcher.  On True the dialog is accepted,
\* capture_and_create_template returns True and capture_screen_pyqt5 calls
\* refresh_template_list (main_gui.py line 357); on False the dialog stays.
DialogCreate ==
    /\ dlg_open
    /\ \E n \in TemplateNames, m \in SaveMetadata, out \in DialogSaveOutcomes :
          /\ store' = SavedFiles(store, n, m, out[1], out[2])
          /\ IF SaveRaised(out[1], out[2])
             THEN /\ dlg_cache' = dlg_cache
                  /\ UNCHANGED <<dlg_open, template_cache>>
                  /\ last_handler' = "dialog_save_failed"
             ELSE /\ dlg_open' = FALSE
                  /\ dlg_cache' = <<>>
                  /\ template_cache' \in Loads(store')
                  /\ last_handler' = "create_accepted"
    /\ UNCHANGED <<mgr_cache, tested>>

\* The dialog is cancelled: exec_() returns Rejected and
\* capture_screen_pyqt5 only logs (main_gui.py lines 358-359).
DialogCancel ==
    /\ dlg_open
    /\ dlg_open' = FALSE
    /\ dlg_cache' = <<>>
    /\ last_handler' = "create_cancelled"
    /\ UNCHANGED <<store, template_cache, mgr_cache, tested>>

\* main_gui.py lines 492-521: delete_template for a name of the list, which
\* shows the names of AutoMapleGUI's cache; refresh_template_list only when
\* delete_template returned True.
GuiDeleteTemplate ==
    /\ ~dlg_open
    /\ \E n \in CachedNames(template_cache), fail \in {"none", "png", "json"} :
          /\ fail = "png" => store[n].png # Absent
          /\ fail = "json" => store[n].json # Absent
          /\ store' = [store EXCEPT ![n] =
                          CASE fail = "png" -> store[n]
                            [] fail = "json" -> [png |-> Absent, json |-> store[n].json]
                            [] OTHER -> [png |-> Absent, json |-> Absent]]
          /\ IF fail = "none"
             THEN /\ template_cache' \in Loads(store')
                  /\ last_handler' = "delete_done"
             ELSE /\ UNCHANGED template_cache
                  /\ last_handler' = "delete_failed"
    /\ UNCHANGED <<mgr_cache, dlg_open, dlg_cache, tested>>

\* main_gui.py lines 452-490: refresh_template_list from its button.
RefreshTemplateList ==
    /\ ~dlg_open
    /\ template_cache' \in Loads(store)
    /\ last_handler' = "refresh"
    /\ UNCHANGED <<store, mgr_cache, dlg_open, dlg_cache, tested>>

\* main_gui.py lines 370-387 and pyqt_template_manager.py lines 481-526:
\* test_template_matching returns False without a window or a screenshot
\* and otherwise matches the templates of the manager's matcher.
TestTemplateMatch ==
    /\ ~dlg_open
    /\ \E shot \in BOOLEAN :
          tested' = IF shot THEN [called |-> TRUE, cache |-> mgr_cache]
                    ELSE tested
    /\ last_handler' = "test"
    /\ UNCHANGED <<store, template_cache, mgr_cache, dlg_open, dlg_cache>>

InstancesNext ==
    \/ /\ DialogOpen
       /\ UNCHANGED <<captureVars, op, confidence_threshold, screen_image,
                      template_types, last_call, candidates, matches,
                      threshold_arg, historyVars, envVars, keyVars, mainVars,
                      guiVars, botVars, creatorVars>>
    \/ /\ DialogCreate
       /\ UNCHANGED <<captureVars, op, confidence_threshold, screen_image,
                      template_types, last_call, candidates, matches,
                      threshold_arg, historyVars, envVars, keyVars, mainVars,
                      guiVars, botVars, creatorVars>>
    \/ /\ DialogCancel
       /\ UNCHANGED <<captureVars, op, confidence_threshold, screen_image,
                      template_types, last_call, candidates, matches,
                      threshold_arg, historyVars, envVars, keyVars, mainVars,
                      guiVars, botVars, creatorVars>>
    \/ /\ GuiDeleteTemplate
       /\ UNCHANGED <<captureVars, op, confidence_threshold, screen_image,
                      template_types, last_call, candidates, matches,
                      threshold_arg, historyVars, envVars, keyVars, mainVars,
                      guiVars, botVars, creatorVars>>
    \/ /\ RefreshTemplateList
       /\ UNCHANGED <<captureVars, op, confidence_threshold, screen_image,
                      template_types, last_call, candidates, matches,
                      threshold_arg, historyVars, envVars, keyVars, mainVars,
                      guiVars, botVars, creatorVars>>
    \/ /\ TestTemplateMatch
       /\ UNCHANGED <<captureVars, op, confidence_threshold, screen_image,
                      template_types, last_call, candidates, matches,
                      threshold_arg, historyVars, envVars, keyVars, mainVars,
                      guiVars, botVars, creatorVars>>
InstancesSpec == InstancesInit /\ [][InstancesNext]_vars

\* C33: each matcher has its own cache.  A save through the dialog's
\* matcher changes no other cache; AutoMapleGUI's cache changes only by
\* becoming a fresh load of the directory, and is one after every create
\* and every delete; the manager's cache never changes, so
\* test_template_matching matches the templates of its construction.
C33_CachesPerInstance ==
    /\ [](/\ last_handler \in {"create_accepted", "delete_done"}
                => template_cache \in Loads(store)
          /\ tested.called => tested.cache = mgr_cache)
    /\ [][/\ mgr_cache' = mgr_cache
          /\ template_cache' # template_cache
                => template_cache' \in Loads(store')
          /\ last_handler' = "dialog_save_failed"
                => template_cache' = template_cache]_vars

\* A template created through the dialog is in AutoMapleGUI's cache after
\* the refresh, while test_template_matching has just matched the
\* manager's cache, which does not hold it.
C33_Witness ==
    /\ last_handler = "test"
    /\ tested.called
    /\ \E n \in CachedNames(template_cache) : n \notin CachedNames(tested.cache)

(***************************************************************************)
(* Bot._main (src/src/modules/bot.py, lines 82-112).  command_book is None *)
(* (line 36; load_commands, lines 114-118, assigns nothing), so the buff   *)
(* branch of lines 85-91 is passed over.  The routine's length is chosen   *)
(* at the start and kept; config.enabled is toggled by the listener and    *)
(* the GUI at any time.  The thread's position is one of                   *)
(*   "check"     at the test of line 83,                                   *)
(*   "sleep"     in time.sleep(0.01) of line 112,                          *)
(*   "feed"      at the pet feeding test of line 95,                       *)
(*   "feed_down" inside press, before key_down,                            *)
(*   "feed_up"   inside press, before key_up,                              *)
(*   "routine"   at the test of line 103,                                  *)
(*   "step"      after element.execute(), before routine.step().           *)
(***************************************************************************)
MaxRoutine == 3

\* The key of self.config['Feed pet'], a key of the model's KEY_MAP.
FeedKey == CHOOSE k \in KEY_MAP : TRUE

\* The record of an act of the thread.
Act(kind) == [kind |-> kind, tick |-> ~bot_act.tick]

BotInit ==
    /\ CaptureInit
    /\ MatcherIdle
    /\ HistoryIdle
    /\ StoreIdle
    /\ KeysIdle
    /\ MainIdle
    /\ GuiIdle
    /\ InstIdle
    /\ CreatorIdle
    /\ enabled \in BOOLEAN
    /\ scene = None
    /\ budget = 0
    /\ bot_pc = "check"
    /\ routine_len \in 0..MaxRoutine
    /\ routine_index = 0
    /\ observed = [enabled |-> FALSE, len |-> 0]
    /\ bot_act = [kind |-> "none", tick |-> FALSE]

\* A test that looks at the routine only.
BotCheck_RoutineOnly ==
    /\ bot_pc = "check"
    /\ observed' = [enabled |-> enabled, len |-> routine_len]
    /\ bot_pc' = IF routine_len > 0 THEN "feed" ELSE "sleep"
    /\ UNCHANGED <<routine_len, routine_index, bot_act, keyVars>>

\* Line 83: if config.enabled and len(config.routine) > 0.
BotCheck ==
    /\ bot_pc = "check"
    /\ observed' = [enabled |-> enabled, len |-> routine_len]
    /\ bot_pc' = IF enabled /\ routine_len > 0 THEN "feed" ELSE "sleep"
    /\ UNCHANGED <<routine_len, routine_index, bot_act, keyVars>>

\* Lines 111-112: time.sleep(0.01) returns.
BotSleep ==
    /\ bot_pc = "sleep"
    /\ bot_pc' = "check"
    /\ UNCHANGED <<routine_len, routine_index, observed, bot_act, keyVars>>

\* Lines 94-100: when feeding is due, press(self.config['Feed pet'], 1);
\* press is skipped as a whole while config.enabled is false.
BotFeed ==
    /\ bot_pc = "feed"
    /\ \E due \in BOOLEAN :
          bot_pc' = IF due /\ RunIfEnabled THEN "feed_down" ELSE "routine"
    /\ UNCHANGED <<routine_len, routine_index, observed, bot_act, keyVars>>

\* vkeys.py lines 150-151: key_down inside press, itself skipped while
\* config.enabled is false.
BotFeedDown ==
    /\ bot_pc = "feed_down"
    /\ held' = KeyDown(held, FeedKey)
    /\ bot_act' = IF held' # held THEN Act("key_down") ELSE bot_act
    /\ bot_pc' = "feed_up"
    /\ UNCHANGED <<routine_len, routine_index, observed, kpc, kkey, kleft,
                   kpaused, klast>>

\* vkeys.py lines 152-153: key_up inside press.
BotFeedUp ==
    /\ bot_pc = "feed_up"
    /\ held' = KeyUp(held, FeedKey)
    /\ bot_pc' = "routine"
    /\ UNCHANGED <<routine_len, routine_index, observed, bot_act, kpc, kkey,
                   kleft, kpaused, klast>>

\* Lines 103-107: the element at routine.index is executed.
BotExecute ==
    /\ bot_pc = "routine"
    /\ IF routine_len > 0
       THEN bot_act' = Act("execute") /\ bot_pc' = "step"
       ELSE bot_act' = bot_act /\ bot_pc' = "check"
    /\ UNCHANGED <<routine_len, routine_index, observed, keyVars>>

\* Line 108 and lines 48-50: routine.step().
BotStep ==
    /\ bot_pc = "step"
    /\ routine_index' = (routine_index + 1) % routine_len
    /\ bot_act' = Act("step")
    /\ bot_pc' = "check"
    /\ UNCHANGED <<routine_len, observed, keyVars>>

BotNext ==
    \/ /\ BotCheck
       /\ UNCHANGED <<captureVars, matcherVars, historyVars, envVars,
                      storeVars, mainVars, guiVars, instVars, creatorVars>>
    \/ /\ BotSleep
       /\ UNCHANGED <<captureVars, matcherVars, historyVars, envVars,
                      storeVars, mainVars, guiVars, instVars, creatorVars>>
    \/ /\ BotFeed
       /\ UNCHANGED <<captureVars, matcherVars, historyVars, envVars,
                      storeVars, mainVars, guiVars, instVars, creatorVars>>
    \/ /\ BotFeedDown
       /\ UNCHANGED <<captureVars, matcherVars, historyVars, envVars,
                      storeVars, mainVars, guiVars, instVars, creatorVars>>
    \/ /\ BotFeedUp
       /\ UNCHANGED <<captureVars, matcherVars, historyVars, envVars,
                      storeVars, mainVars, guiVars, instVars, creatorVars>>
    \/ /\ BotExecute
       /\ UNCHANGED <<captureVars, matcherVars, historyVars, envVars,
                      storeVars, mainVars, guiVars, instVars, creatorVars>>
    \/ /\ BotStep
       /\ UNCHANGED <<captureVars, matcherVars, historyVars, envVars,
                      storeVars, mainVars, guiVars, instVars, creatorVars>>
    \/ ListenerToggleBot
    \/ GuiToggleBot
BotSpec == BotInit /\ [][BotNext]_vars

\* C34: the thread executes an element, presses a key or advances
\* routine.index only in an iteration whose check observed config.enabled
\* true and a non-empty routine; a check that finds config.enabled false
\* goes to the sleep, so that after config.enabled became false at most the
\* iteration under way is finished; with an empty routine it never acts.
C34_ActsOnlyWhenEnabled ==
    /\ [](routine_len = 0 =>
             /\ bot_act.kind = "none"
             /\ routine_index = 0
             /\ held = {})
    /\ [][/\ (bot_act' # bot_act \/ routine_index' # routine_index
                 \/ held' # held)
              => (observed.enabled /\ observed.len > 0 /\ observed' = observed)
          /\ (bot_pc = "check" /\ bot_pc' # bot_pc /\ ~enabled)
              => bot_pc' = "sleep"]_vars

\* An element was executed after config.enabled had become false during the
\* iteration.
C34_Witness ==
    /\ bot_pc = "step"
    /\ bot_act.kind = "execute"
    /\ ~enabled

-----------------------------------------------------------------------------
\* TemplateCreatorDialog and its ImageViewer (pyqt_template_manager.py).
\* The dialog is constructed with a screenshot; setup_ui builds the viewer,
\* hands it the screenshot and connects roi_selected to on_roi_selected.
\* Sizes are those of the source scaled down: the viewer is ViewerW x
\* ViewerH where the source asks for 800 x 600.

ViewerW == 16
ViewerH == 12
\* The smallest side a selection must exceed (line 126).
MIN_ROI == 10

Size(w, h) == [w |-> w, h |-> h]
\* Shapes of the screenshots the dialog is constructed with: twice the
\* viewer, the viewer's size, and an empty array.
Screenshots == {Size(2 * ViewerW, 2 * ViewerH), Size(ViewerW, ViewerH),
                Size(0, 0)}
\* Sizes the layout gives the viewer: its minimum, and a larger one once
\* the dialog is resized (line 233, setWidgetResizable at line 253).
WidgetSizes == {Size(ViewerW, ViewerH), Size(ViewerW + 2, ViewerH)}
\* Positions of the mouse events, some outside the widget.
MouseXs == {0 - 1, 2, ViewerW - 1}
MouseYs == {0, ViewerH - 1, ViewerH + 1}
Buttons == {"left", "right"}

\* QSize.scaled(size, Qt.KeepAspectRatio) as pixmap.scaled uses it at
\* line 75: the largest size of the image's aspect ratio inside `size`.
Scaled(img, size) ==
    LET rw == (size.h * img.w) \div img.h
    IN  IF rw <= size.w
        THEN Size(rw, size.h)
        ELSE Size(size.w, (size.w * img.h) \div img.w)

\* set_image, lines 55-90, the value it leaves in original_image: an empty
\* array only sets the label's text (lines 58-60).
SetImageOriginal(image) ==
    IF image.w * image.h = 0
    THEN NoImage
    ELSE [loaded |-> TRUE, w |-> image.w, h |-> image.h]
\* ... and in displayed_pixmap (lines 74-77).
SetImagePixmap(image, size) ==
    IF image.w * image.h = 0 THEN Size(0, 0) ELSE Scaled(image, size)

\* widget_to_image without the test of lines 149-150.
WidgetToImage_NoBoundsTest(widget_x, widget_y) ==
    IF ~original_image.loaded \/ displayed_pixmap.w = 0 \/ displayed_pixmap.h = 0
    THEN NoPoint
    ELSE LET offset_x == (widget_size.w - displayed_pixmap.w) \div 2
             offset_y == (widget_size.h - displayed_pixmap.h) \div 2
             display_x == Max(0, widget_x - offset_x)
             display_y == Max(0, widget_y - offset_y)
             image_x == (display_x * original_image.w) \div displayed_pixmap.w
             image_y == (display_y * original_image.h) \div displayed_pixmap.h
         IN  [set |-> TRUE,
              x |-> Max(0, Min(image_x, original_image.w - 1)),
              y |-> Max(0, Min(image_y, original_image.h - 1))]

\* widget_to_image, lines 129-163: (None, None) is NoPoint.  int() of the
\* product with the float scale is the integer quotient.
WidgetToImage(widget_x, widget_y) ==
    IF ~original_image.loaded
    THEN NoPoint
    ELSE LET offset_x == (widget_size.w - displayed_pixmap.w) \div 2
             offset_y == (widget_size.h - displayed_pixmap.h) \div 2
             display_x == widget_x - offset_x
             display_y == widget_y - offset_y
         IN  IF \/ display_x < 0
                \/ display_y < 0
                \/ display_x >= displayed_pixmap.w
                \/ display_y >= displayed_pixmap.h
             THEN NoPoint
             ELSE LET image_x == (display_x * original_image.w)
                                     \div displayed_pixmap.w
                      image_y == (display_y * original_image.h)
                                     \div displayed_pixmap.h
                  IN  [set |-> TRUE,
                       x |-> Max(0, Min(image_x, original_image.w - 1)),
                       y |-> Max(0, Min(image_y, original_image.h - 1))]

\* Texts of the name field: sequences of characters, " " the whitespace.
Chars == {" ", "a"}
MaxName == 1
NameTexts == UNION {[1..n -> Chars] : n \in 0..MaxName}
\* The name on_roi_selected generates at line 344, "<type>_<timestamp>".
AutoName == <<"p", "_", "1">>

RECURSIVE LStrip(_)
LStrip(t) == IF t # <<>> /\ Head(t) = " " THEN LStrip(Tail(t)) ELSE t
RECURSIVE RStrip(_)
RStrip(t) ==
    IF t # <<>> /\ t[Len(t)] = " " THEN RStrip(SubSeq(t, 1, Len(t) - 1)) ELSE t
\* str.strip() of line 375.
Strip(t) == RStrip(LStrip(t))

\* TemplateCreatorDialog.__init__ and setup_ui, lines 225-313: the state
\* when the dialog is shown.
CreatorInit ==
    /\ CaptureInit
    /\ MatcherIdle
    /\ HistoryIdle
    /\ EnvIdle
    /\ StoreIdle
    /\ KeysIdle
    /\ MainIdle
    /\ GuiIdle
    /\ InstIdle
    /\ BotIdle
    /\ screenshot \in Screenshots
    /\ widget_size = Size(ViewerW, ViewerH)
    /\ original_image = SetImageOriginal(screenshot)
    /\ displayed_pixmap = SetImagePixmap(screenshot, widget_size)
    /\ point1 = NoPoint
    /\ point2 = NoPoint
    /\ dragging = FALSE
    /\ selected_roi = NoRoi
    /\ name_input = <<>>
    /\ create_button = FALSE
    /\ test_button = FALSE
    /\ dialog_result = "open"
    /\ saved_templates = {}
    /\ roi_emitted = NoRoi
    /\ mouse_last = NoMouse

Mouse(kind, b) == [kind |-> kind, button |-> b, dragging |-> dragging,
                   loaded |-> original_image.loaded]

\* The layout resizes the viewer; the pixmap keeps the size set_image gave it.
ResizeViewer ==
    /\ dialog_result = "open"
    /\ \E sz \in WidgetSizes :
        /\ sz # widget_size
        /\ widget_size' = sz
    /\ UNCHANGED <<screenshot, original_image, displayed_pixmap, point1,
                   point2, dragging, selected_roi, name_input, create_button,
                   test_button, dialog_result, saved_templates, roi_emitted,
                   mouse_last>>

\* mousePressEvent, lines 92-97.
MousePress ==
    /\ dialog_result = "open"
    /\ \E b \in Buttons, wx \in MouseXs, wy \in MouseYs :
        /\ mouse_last' = Mouse("press", b)
        /\ IF b = "left" /\ original_image.loaded
           THEN /\ point1' = [set |-> TRUE, x |-> wx, y |-> wy]
                /\ dragging' = TRUE
           ELSE UNCHANGED <<point1, dragging>>
    /\ roi_emitted' = NoRoi
    /\ UNCHANGED <<screenshot, original_image, displayed_pixmap, widget_size,
                   point2, selected_roi, name_input, create_button,
                   test_button, dialog_result, saved_templates>>

\* mouseMoveEvent, lines 99-103.
MouseMove ==
    /\ dialog_result = "open"
    /\ \E wx \in MouseXs, wy \in MouseYs :
        /\ mouse_last' = Mouse("move", "none")
        /\ IF dragging /\ original_image.loaded
           THEN point2' = [set |-> TRUE, x |-> wx, y |-> wy]
           ELSE UNCHANGED point2
    /\ roi_emitted' = NoRoi
    /\ UNCHANGED <<screenshot, original_image, displayed_pixmap, widget_size,
                   point1, dragging, selected_roi, name_input, create_button,
                   test_button, dialog_result, saved_templates>>

\* on_roi_selected, lines 315-344, the slot of roi_selected.
OnRoiSelected(x, y, width, height) ==
    IF x < 0 \/ y < 0 \/ x + width > screenshot.w \/ y + height > screenshot.h
    THEN UNCHANGED <<selected_roi, name_input, create_button, test_button>>
    ELSE /\ selected_roi' = [set |-> TRUE, x |-> x, y |-> y,
                             w |-> width, h |-> height]
         /\ create_button' = TRUE
         /\ test_button' = TRUE
         /\ name_input' = IF name_input = <<>> THEN AutoName ELSE name_input

\* mouseReleaseEvent, lines 105-127; the signal is delivered to
\* on_roi_selected before the handler returns.
MouseRelease ==
    /\ dialog_result = "open"
    /\ \E b \in Buttons, wx \in MouseXs, wy \in MouseYs :
        /\ mouse_last' = Mouse("release", b)
        /\ IF b = "left" /\ dragging
           THEN LET i1 == WidgetToImage(point1.x, point1.y)
                    i2 == WidgetToImage(wx, wy)
                    x == Min(i1.x, i2.x)
                    y == Min(i1.y, i2.y)
                    width == Abs(i2.x - i1.x)
                    height == Abs(i2.y - i1.y)
                IN  /\ dragging' = FALSE
                    /\ point2' = [set |-> TRUE, x |-> wx, y |-> wy]
                    /\ IF /\ point1.set
                          /\ i1.set
                          /\ i2.set
                          /\ width > MIN_ROI
                          /\ height > MIN_ROI
                       THEN /\ roi_emitted' = [set |-> TRUE, x |-> x, y |-> y,
                                               w |-> width, h |-> height]
                            /\ OnRoiSelected(x, y, width, height)
                       ELSE /\ roi_emitted' = NoRoi
                            /\ UNCHANGED <<selected_roi, name_input,
                                           create_button, test_button>>
           ELSE /\ roi_emitted' = NoRoi
                /\ UNCHANGED <<dragging, point2, selected_roi, name_input,
                               create_button, test_button>>
    /\ UNCHANGED <<screenshot, original_image, displayed_pixmap, widget_size,
                   point1, dialog_result, saved_templates>>

\* The user edits the name field.
EditName ==
    /\ dialog_result = "open"
    /\ \E t \in NameTexts :
        /\ t # name_input
        /\ name_input' = t
    /\ UNCHANGED <<screenshot, original_image, displayed_pixmap, widget_size,
                   point1, point2, dragging, selected_roi, create_button,
                   test_button, dialog_result, saved_templates, roi_emitted,
                   mouse_last>>

\* create_template, lines 346-387, run by a click on the enabled Create
\* button (line 299).  save_template returns True, or False when a write
\* raises (template_matcher.py lines 274-306).
CreateTemplate ==
    /\ dialog_result = "open"
    /\ create_button
    /\ \E saved \in BOOLEAN :
        IF ~selected_roi.set \/ name_input = <<>>
        THEN UNCHANGED <<dialog_result, saved_templates>>
        ELSE IF \/ selected_roi.x < 0
                \/ selected_roi.y < 0
                \/ selected_roi.x + selected_roi.w > screenshot.w
                \/ selected_roi.y + selected_roi.h > screenshot.h
        THEN UNCHANGED <<dialog_result, saved_templates>>
        ELSE IF selected_roi.w * selected_roi.h = 0
        THEN UNCHANGED <<dialog_result, saved_templates>>
        ELSE IF saved
        THEN /\ saved_templates' = saved_templates \cup
                    {[name |-> Strip(name_input), w |-> selected_roi.w,
                      h |-> selected_roi.h]}
             /\ dialog_result' = "accepted"
        ELSE UNCHANGED <<dialog_result, saved_templates>>
    /\ UNCHANGED <<screenshot, original_image, displayed_pixmap, widget_size,
                   point1, point2, dragging, selected_roi, name_input,
                   create_button, test_button, roi_emitted, mouse_last>>

\* The Cancel button, lines 305-306: reject().
CancelDialog ==
    /\ dialog_result = "open"
    /\ dialog_result' = "rejected"
    /\ UNCHANGED <<screenshot, original_image, displayed_pixmap, widget_size,
                   point1, point2, dragging, selected_roi, name_input,
                   create_button, test_button, saved_templates, roi_emitted,
                   mouse_last>>

CreatorNext ==
    \/ ResizeViewer /\ UNCHANGED <<captureVars, matcherVars, historyVars,
                      envVars, storeVars, keyVars, mainVars, guiVars,
                      instVars, botVars>>
    \/ MousePress /\ UNCHANGED <<captureVars, matcherVars, historyVars,
                      envVars, storeVars, keyVars, mainVars, guiVars,
                      instVars, botVars>>
    \/ MouseMove /\ UNCHANGED <<captureVars, matcherVars, historyVars,
                      envVars, storeVars, keyVars, mainVars, guiVars,
                      instVars, botVars>>
    \/ MouseRelease /\ UNCHANGED <<captureVars, matcherVars, historyVars,
                      envVars, storeVars, keyVars, mainVars, guiVars,
                      instVars, botVars>>
    \/ EditName /\ UNCHANGED <<captureVars, matcherVars, historyVars,
                      envVars, storeVars, keyVars, mainVars, guiVars,
                      instVars, botVars>>
    \/ CreateTemplate /\ UNCHANGED <<captureVars, matcherVars, historyVars,
                      envVars, storeVars, keyVars, mainVars, guiVars,
                      instVars, botVars>>
    \/ CancelDialog /\ UNCHANGED <<captureVars, matcherVars, historyVars,
                      envVars, storeVars, keyVars, mainVars, guiVars,
                      instVars, botVars>>

CreatorSpec == CreatorInit /\ [][CreatorNext]_vars

\* The widget point p lies on the displayed pixmap, which the label centres.
InsideDisplayed(p) ==
    LET offset_x == (widget_size.w - displayed_pixmap.w) \div 2
        offset_y == (widget_size.h - displayed_pixmap.h) \div 2
    IN  /\ p.set
        /\ offset_x <= p.x /\ p.x < offset_x + displayed_pixmap.w
        /\ offset_y <= p.y /\ p.y < offset_y + displayed_pixmap.h

\* What holds of every emission of roi_selected: it comes from a left-button
\* release that found a drag under way and an image loaded, both endpoints
\* of the drag lie on the displayed image, the region is more than MIN_ROI
\* wide and high, and it lies inside the image.
EmitsValidRegion ==
    roi_emitted.set =>
        /\ mouse_last.kind = "release"
        /\ mouse_last.button = "left"
        /\ mouse_last.dragging
        /\ mouse_last.loaded
        /\ InsideDisplayed(point1)
        /\ InsideDisplayed(point2)
        /\ roi_emitted.w > MIN_ROI
        /\ roi_emitted.h > MIN_ROI
        /\ roi_emitted.x >= 0
        /\ roi_emitted.y >= 0
        /\ roi_emitted.x + roi_emitted.w <= original_image.w
        /\ roi_emitted.y + roi_emitted.h <= original_image.h

\* A drag is under way only with a start point and an image.
DragHasStart == dragging => point1.set /\ original_image.loaded

\* A drag starts only in a left-button press that finds an image loaded.
DragStartsOnLeftPress ==
    (~dragging /\ dragging') =>
        /\ mouse_last'.kind = "press"
        /\ mouse_last'.button = "left"
        /\ mouse_last'.loaded

\* C35 as stated: roi_selected is emitted only on a left-button release that
\* ends a drag started by a left-button press while an image is loaded, with
\* both endpoints on the displayed image and a region more than 10 pixels
\* wide and high that lies inside the image, and dragging is false after
\* every release.
C35_EmitsValidRegionAnyReleaseEndsDrag ==
    /\ EmitsValidRegion
    /\ DragHasStart
    /\ mouse_last.kind = "release" => ~dragging

\* C35, amended: roi_selected is emitted only on a left-button release that
\* ends a drag started by a left-button press while an image is loaded, with
\* both endpoints on the displayed image and a region more than 10 pixels
\* wide and high that lies inside the image; dragging is false after every
\* left-button release, and the release of another button leaves dragging
\* as it found it.
C35_EmitsValidRegionLeftReleaseEndsDrag ==
    /\ [](/\ EmitsValidRegion
          /\ DragHasStart
          /\ (mouse_last.kind = "release" /\ mouse_last.button = "left")
                 => ~dragging
          /\ (mouse_last.kind = "release" /\ mouse_last.button # "left")
                 => dragging = mouse_last.dragging)
    /\ [][DragStartsOnLeftPress]_vars

\* A left-button release has just ended a drag over the resized viewer and
\* emitted a region.
C35_Witness ==
    /\ roi_emitted.set
    /\ mouse_last.kind = "release"
    /\ mouse_last.button = "left"
    /\ mouse_last.dragging
    /\ ~dragging
    /\ widget_size # Size(ViewerW, ViewerH)

\* The selected region lies inside the screenshot.
RoiInBounds ==
    /\ selected_roi.set
    /\ selected_roi.x >= 0
    /\ selected_roi.y >= 0
    /\ selected_roi.x + selected_roi.w <= screenshot.w
    /\ selected_roi.y + selected_roi.h <= screenshot.h

\* C36: create_template saves a template only when a region inside the
\* screenshot has been selected and a name has been entered: every template
\* it saved has a non-empty name and a non-empty image, and the Create and
\* Test buttons are enabled only after an in-bounds region has been selected.
C36_SavesNamedRegionOnly ==
    /\ \A t \in saved_templates : Len(t.name) > 0 /\ t.w * t.h > 0
    /\ saved_templates # {} => RoiInBounds /\ name_input # <<>>
    /\ (create_button \/ test_button) => RoiInBounds

=============================================================================
